---------------------------- MODULE Spec2Model ----------------------------
(***************************************************************************)
(* Marketing analytics dashboard (website/js/app.js, website/js/data.js    *)
(* and the bundled enhanced build that carries the month / quarter / year  *)
(* heat map).  The module models the timeline generator, the date-range    *)
(* filter with the raw-data table, the intensity classifier and the        *)
(* calendar heat-map builder.                                              *)
(*                                                                         *)
(* Conventions                                                             *)
(*  - A time value is a number of MINUTES since 1970-01-01T00:00Z (the     *)
(*    source's milliseconds divided by 60000; every time value the program *)
(*    handles is a whole number of minutes).                               *)
(*  - A date string 'YYYY-MM-DD' is the tuple <<YYYY, MM, DD>>; the empty  *)
(*    string of an unset <input type=date> is <<>>.                        *)
(*  - Money is in cents.                                                   *)
(***************************************************************************)
EXTENDS Integers, Sequences, FiniteSets, TLC

(***************************************************************************)
(* ECMAScript Date arithmetic (ECMA-262, "Date objects"), as used by       *)
(* new Date(y, m, d), new Date('YYYY-MM-DD'), getDate, getDay, setDate,    *)
(* getFullYear, getMonth and toISOString.                                  *)
(***************************************************************************)
MinutesPerDay == 1440

\* F applied to the value of v (v is evaluated once).
Bind(v, F(_)) == CHOOSE r \in {F(x) : x \in {v}} : TRUE

Day(t) == t \div MinutesPerDay

TimeWithinDay(t) == t % MinutesPerDay

DaysInYear(y) ==
    IF y % 4 # 0 THEN 365
    ELSE IF y % 100 # 0 THEN 366
    ELSE IF y % 400 # 0 THEN 365
    ELSE 366

DayFromYear(y) ==
    365 * (y - 1970) + ((y - 1969) \div 4) - ((y - 1901) \div 100)
        + ((y - 1601) \div 400)

\* YearFromTime: the largest y with DayFromYear(y) <= Day(t).  For a day
\* number >= 0 that year lies between 1970 + day/366 and 1970 + day/365.
YearFromTime(t) ==
    Bind(Day(t), LAMBDA day :
        CHOOSE y \in 1970 + (day \div 366) .. 1970 + (day \div 365) :
            DayFromYear(y) <= day /\ day < DayFromYear(y + 1))

\* <<year, day within year, 1 in a leap year>> of a time value.
YearDay(t) ==
    Bind(YearFromTime(t), LAMBDA y :
        <<y, Day(t) - DayFromYear(y), IF DaysInYear(y) = 366 THEN 1 ELSE 0>>)

InLeapYear(t) == YearDay(t)[3]

DayWithinYear(t) == YearDay(t)[2]

\* MonthFromTime, given the day within the year d and the leap flag l.
MonthOfYearDay(d, l) ==
    IF d < 31 THEN 0
    ELSE IF d < 59 + l THEN 1
    ELSE IF d < 90 + l THEN 2
    ELSE IF d < 120 + l THEN 3
    ELSE IF d < 151 + l THEN 4
    ELSE IF d < 181 + l THEN 5
    ELSE IF d < 212 + l THEN 6
    ELSE IF d < 243 + l THEN 7
    ELSE IF d < 273 + l THEN 8
    ELSE IF d < 304 + l THEN 9
    ELSE IF d < 334 + l THEN 10
    ELSE 11

MonthFromTime(t) == Bind(YearDay(t), LAMBDA yd : MonthOfYearDay(yd[2], yd[3]))

\* DateFromTime, given the day within the year d, the leap flag l and the
\* month m.
DateOfYearDay(d, l, m) ==
    IF m = 0 THEN d + 1
    ELSE IF m = 1 THEN d - 30
    ELSE IF m = 2 THEN d - 58 - l
    ELSE IF m = 3 THEN d - 89 - l
    ELSE IF m = 4 THEN d - 119 - l
    ELSE IF m = 5 THEN d - 150 - l
    ELSE IF m = 6 THEN d - 180 - l
    ELSE IF m = 7 THEN d - 211 - l
    ELSE IF m = 8 THEN d - 242 - l
    ELSE IF m = 9 THEN d - 272 - l
    ELSE IF m = 10 THEN d - 303 - l
    ELSE d - 333 - l

DateFromTime(t) ==
    Bind(YearDay(t), LAMBDA yd :
        Bind(MonthOfYearDay(yd[2], yd[3]), LAMBDA m :
            DateOfYearDay(yd[2], yd[3], m)))

WeekDay(t) == (Day(t) + 4) % 7

\* Day number of the first day of month mn (0..11) of year ym.
FirstDayOfMonth(ym, mn) ==
    LET leap == IF DaysInYear(ym) = 366 THEN 1 ELSE 0
        before == IF mn = 0 THEN 0
                  ELSE IF mn = 1 THEN 31
                  ELSE IF mn = 2 THEN 59 + leap
                  ELSE IF mn = 3 THEN 90 + leap
                  ELSE IF mn = 4 THEN 120 + leap
                  ELSE IF mn = 5 THEN 151 + leap
                  ELSE IF mn = 6 THEN 181 + leap
                  ELSE IF mn = 7 THEN 212 + leap
                  ELSE IF mn = 8 THEN 243 + leap
                  ELSE IF mn = 9 THEN 273 + leap
                  ELSE IF mn = 10 THEN 304 + leap
                  ELSE 334 + leap
    IN  DayFromYear(ym) + before

\* MakeDay(year, month, date): month may lie outside 0..11 and date outside
\* the month; both carry over.
MakeDay(year, month, date) ==
    FirstDayOfMonth(year + (month \div 12), month % 12) + date - 1

MakeDate(day, time) == day * MinutesPerDay + time

\* LocalTZA is the host's offset from UTC in minutes, taken as constant over
\* the dates the program handles.
LocalTime(t, tza) == t + tza

UTC(t, tza) == t - tza

\* new Date(year, month, date): local midnight.
NewDateLocal(year, month, date, tza) ==
    UTC(MakeDate(MakeDay(year, month, date), 0), tza)

\* new Date('YYYY-MM-DD'): a date-only ISO string is UTC midnight.
NewDateISO(s) == MakeDate(MakeDay(s[1], s[2] - 1, s[3]), 0)

getFullYear(t, tza) == YearFromTime(LocalTime(t, tza))

getMonth(t, tza) == MonthFromTime(LocalTime(t, tza))

getDate(t, tza) == DateFromTime(LocalTime(t, tza))

getDay(t, tza) == WeekDay(LocalTime(t, tza))

\* date.setDate(n): the local date replaced, the local time of day kept.
setDate(t, n, tza) ==
    Bind(LocalTime(t, tza), LAMBDA lt :
        UTC(MakeDate(MakeDay(YearFromTime(lt), MonthFromTime(lt), n),
                     TimeWithinDay(lt)), tza))

\* date.toISOString().split('T')[0]: the UTC calendar date, zero padded.
toISODate(t) ==
    Bind(t, LAMBDA tv :
        <<YearFromTime(tv), MonthFromTime(tv) + 1, DateFromTime(tv)>>)

\* `${year}-${String(month + 1).padStart(2, '0')}-${String(day).padStart(2, '0')}`
DateStr(year, month, day) == <<year, month + 1, day>>

(***************************************************************************)
(* Intensity classifier.                                                   *)
(***************************************************************************)
\* The enhanced build (the bundle with the month / quarter / year views).
\* The classifier testing the revenue thresholds before the event count.
getIntensityLevel_revenueFirst(posts, campaigns, revenue) ==
    LET totalEvents == posts + campaigns
    IN  IF totalEvents >= 3 \/ revenue > 500000 THEN "high"
        ELSE IF totalEvents >= 2 \/ revenue > 250000 THEN "medium"
        ELSE IF totalEvents = 0 THEN "none"
        ELSE "low"

getIntensityLevel(posts, campaigns, revenue) ==
    LET totalEvents == posts + campaigns
    IN  IF totalEvents = 0 THEN "none"
        ELSE IF totalEvents >= 3 \/ revenue > 500000 THEN "high"
        ELSE IF totalEvents >= 2 \/ revenue > 250000 THEN "medium"
        ELSE "low"

\* website/js/app.js.
getIntensityLevel_appjs(posts, campaigns, revenue) ==
    LET totalEvents == posts + campaigns
    IN  IF totalEvents = 0 THEN "none"
        ELSE IF totalEvents >= 3 /\ revenue > 500000 THEN "high"
        ELSE IF totalEvents >= 1 THEN "medium"
        ELSE "low"

(***************************************************************************)
(* Calendar heat map of the enhanced build.                                *)
(***************************************************************************)
\* Resolution of the fractional part (random % 1): a fraction is n / HashRes.
HashRes == 16

\* (Math.abs(Math.sin(seed * c)) * 43758.5453) % 1 for the k-th multiplier c
\* (12.9898, 78.233, 45.164).  Math.sin is implementation-approximated and
\* the product keeps only its low digits, so the fraction is a fixed but
\* engine-dependent function of the seed: `engine` selects it.
SinFraction(engine, seed, k) ==
    (((seed % 7919) * (31 + 7 * k) + 97 * engine + 13 * k) % 1009) % HashRes

\* new Date(year, month, 0).getDate(): the day count of the month before.
DaysInMonthOf_prevMonth(year, month, tza) ==
    getDate(NewDateLocal(year, month, 0, tza), tza)

\* new Date(year, month + 1, 0).getDate()
DaysInMonthOf(year, month, tza) ==
    getDate(NewDateLocal(year, month + 1, 0, tza), tza)

\* The weekday of the first of the month counted from Monday.
StartingDayOfWeek_mondayFirst(year, month, tza) ==
    (getDay(NewDateLocal(year, month, 1, tza), tza) + 6) % 7

\* new Date(year, month, 1).getDay()
StartingDayOfWeek(year, month, tza) ==
    getDay(NewDateLocal(year, month, 1, tza), tza)

ZeroActivity == [posts |-> 0, campaigns |-> 0, revenue |-> 0]

\* The activity map of one month: dateStr -> {posts, campaigns, revenue}.
generateMonthlyActivityData(year, month, engine, tza) ==
    LET entry(day) ==
            LET seed == year * 10000 + month * 100 + day
            IN  [posts |-> (SinFraction(engine, seed, 1) * 4) \div HashRes,
                 campaigns |-> (SinFraction(engine, seed, 2) * 3) \div HashRes,
                 revenue |->
                    (((SinFraction(engine, seed, 3) * 8000) \div HashRes) + 500)
                        * 100]
    IN  Bind(DaysInMonthOf(year, month, tza), LAMBDA daysInMonth :
            [ds \in {DateStr(year, month, day) : day \in 1 .. daysInMonth} |->
                entry(ds[3])])

\* activityMap[dateStr] || { posts: 0, campaigns: 0, revenue: 0 }
Lookup(activityMap, dateStr) ==
    IF dateStr \in DOMAIN activityMap THEN activityMap[dateStr]
    ELSE ZeroActivity

\* Cells of a grid.  `date` is the data-date attribute (<<>> when the cell
\* has none), `month` and `day` what the tooltip or title names.
HeaderCell ==
    [kind |-> "header", month |-> 0, day |-> 0, date |-> <<>>,
     intensity |-> "", posts |-> 0, campaigns |-> 0, revenue |-> 0]

EmptyCell ==
    [kind |-> "empty", month |-> 0, day |-> 0, date |-> <<>>,
     intensity |-> "", posts |-> 0, campaigns |-> 0, revenue |-> 0]

DayCell(m, day, date, intensity, activity) ==
    [kind |-> "day", month |-> m, day |-> day, date |-> date,
     intensity |-> intensity, posts |-> activity.posts,
     campaigns |-> activity.campaigns, revenue |-> activity.revenue]

Repeat(cell, n) == [i \in 1 .. n |-> cell]

\* What each builder computes before its loops, for year and month m:
\* <<daysInMonth, startingDayOfWeek, activityMap>>.
MonthSetup(year, m, engine, tza) ==
    <<DaysInMonthOf(year, m, tza), StartingDayOfWeek(year, m, tza),
      generateMonthlyActivityData(year, m, engine, tza)>>

\* The quarter view's day cell classified by website/js/app.js's thresholds.
QuarterDayCell_appjs(year, m, day, activityMap) ==
    Bind(Lookup(activityMap, DateStr(year, m, day)), LAMBDA activity :
        DayCell(m, day, <<>>,
                getIntensityLevel_appjs(activity.posts, activity.campaigns,
                                        activity.revenue),
                activity))

\* The day cell of the month view's loop.
MonthDayCell(year, month, day, activityMap) ==
    Bind(Lookup(activityMap, DateStr(year, month, day)), LAMBDA activity :
        DayCell(month, day, DateStr(year, month, day),
                getIntensityLevel(activity.posts, activity.campaigns,
                                  activity.revenue),
                activity))

\* The day cell of the quarter view's loop.
QuarterDayCell(year, m, day, activityMap) ==
    Bind(Lookup(activityMap, DateStr(year, m, day)), LAMBDA activity :
        DayCell(m, day, <<>>,
                getIntensityLevel(activity.posts, activity.campaigns,
                                  activity.revenue),
                activity))

\* The day cell of the year view's loop.
YearDayCell(year, m, day, activityMap) ==
    Bind(Lookup(activityMap, DateStr(year, m, day)), LAMBDA activity :
        DayCell(m, day, <<>>,
                getIntensityLevel(activity.posts, activity.campaigns,
                                  activity.revenue),
                activity))

\* One month's calendar-grid: seven weekday headers, the leading empty cells,
\* then the day cells.
generateMonthView(year, month, engine, tza) ==
    Bind(MonthSetup(year, month, engine, tza), LAMBDA s :
        << [month |-> month,
            cells |-> Repeat(HeaderCell, 7)
                      \o Repeat(EmptyCell, s[2])
                      \o [day \in 1 .. s[1] |->
                             MonthDayCell(year, month, day, s[3])]] >>)

\* The quarter view started at the selected month instead of at the first
\* month of its quarter.
generateQuarterView_fromMonth(year, month, engine, tza) ==
    LET miniMonth(m) ==
            Bind(MonthSetup(year, m, engine, tza), LAMBDA s :
                [month |-> m,
                 cells |-> Repeat(HeaderCell, 7)
                           \o Repeat(EmptyCell, s[2])
                           \o [day \in 1 .. s[1] |->
                                  QuarterDayCell(year, m, day, s[3])]])
    IN  [k \in 1 .. 3 |-> miniMonth(month + k - 1)]

\* The quarter-grid: three mini-months, each with seven headers.
generateQuarterView(year, month, engine, tza) ==
    LET quarterStart == (month \div 3) * 3
        miniMonth(m) ==
            Bind(MonthSetup(year, m, engine, tza), LAMBDA s :
                [month |-> m,
                 cells |-> Repeat(HeaderCell, 7)
                           \o Repeat(EmptyCell, s[2])
                           \o [day \in 1 .. s[1] |->
                                  QuarterDayCell(year, m, day, s[3])]])
    IN  [k \in 1 .. 3 |-> miniMonth(quarterStart + k - 1)]

\* The year-grid: twelve tiny-months, without weekday headers.
generateYearView(year, engine, tza) ==
    LET tinyMonth(m) ==
            Bind(MonthSetup(year, m, engine, tza), LAMBDA s :
                [month |-> m,
                 cells |-> Repeat(EmptyCell, s[2])
                           \o [day \in 1 .. s[1] |->
                                  YearDayCell(year, m, day, s[3])]])
    IN  [k \in 1 .. 12 |-> tinyMonth(k - 1)]

(***************************************************************************)
(* Timeline generator (data.js).                                           *)
(***************************************************************************)
\* Math.random(): a deterministic generator seeded by the host; a draw is
\* the fraction state / RandMod.  The generator is a small congruential one.
\* The resolution makes Math.random() * 400 any multiple of a thousandth of
\* a dollar, so that revenues on either side of a rounding boundary occur.
RandMod == 400000

NextRandom(x) == (x * 1229 + 1) % RandMod

\* The n-th state after x.
RECURSIVE RandomAfter(_, _)
RandomAfter(x, n) == IF n = 0 THEN x ELSE RandomAfter(NextRandom(x), n - 1)

\* The loop runs i = 59 down to 0.
TimelineDays == 60

\* new Date('2026-01-29')
EndDate == NewDateISO(<<2026, 1, 29>>)

\* The loop date read with the UTC day of the month (getUTCDate), the date
\* then set in local time.
LoopDate_utcDay(i, tza) == setDate(EndDate, DateFromTime(EndDate) - i, tza)

\* const date = new Date(endDate); date.setDate(date.getDate() - i);
LoopDate(i, tza) == setDate(EndDate, getDate(EndDate, tza) - i, tza)

\* One pass of the loop body: the record pushed, given the generator's state
\* x before the pass.  The body draws six times, in this order: revenue,
\* sessions, hasPost, hasCampaign, topSources, topCountries.
TimelineRecord(i, x, tza) ==
    LET r1 == NextRandom(x)
        r2 == NextRandom(r1)
        r3 == NextRandom(r2)
        r4 == NextRandom(r3)
        r5 == NextRandom(r4)
        r6 == NextRandom(r5)
        isWeekend(date) == getDay(date, tza) = 0 \/ getDay(date, tza) = 6
        \* revenue in thousandths of a dollar; Math.random() * 400 is
        \* r1 * 400000 / RandMod, a whole number of thousandths
        revenue(date) == (IF isWeekend(date) THEN 600 ELSE 800) * 1000
                             + r1 * (400000 \div RandMod)
        sessions(date) == (IF isWeekend(date) THEN 180 ELSE 250)
                              + ((r2 * 100) \div RandMod)
        hasPost == r3 * 100 > 85 * RandMod
        hasCampaign == r4 * 100 > 95 * RandMod
    IN  Bind(LoopDate(i, tza), LAMBDA date :
          Bind(<<revenue(date), sessions(date)>>, LAMBDA v :
            [date |-> toISODate(date),
             revenue |-> (v[1] + 5) \div 10,
             orders |-> v[1] \div 35000,
             sessions |-> v[2],
             visitors |-> (v[2] * 85) \div 100,
             pageViews |-> (v[2] * 32 + 5) \div 10,
             shopifySessions |-> (v[2] * 6) \div 10,
             topSources |-> (r5 * 3) \div RandMod,
             topCountries |-> (r6 * 3) \div RandMod,
             posts |-> IF hasPost THEN 1 ELSE 0,
             campaigns |-> IF hasCampaign THEN 1 ELSE 0,
             hasEvent |-> hasPost \/ hasCampaign]))

(***************************************************************************)
(* Date-range filter and raw-data table (app.js).                          *)
(***************************************************************************)
Min(a, b) == IF a < b THEN a ELSE b

Max(a, b) == IF a > b THEN a ELSE b

\* Array.prototype.slice(start): a negative start counts from the end, and
\* start = -0 is 0.
Slice(arr, start) ==
    LET len == Len(arr)
        k == IF start < 0 THEN Max(len + start, 0) ELSE Min(start, len)
    IN  SubSeq(arr, k + 1, len)

Reverse(arr) == [j \in 1 .. Len(arr) |-> arr[Len(arr) + 1 - j]]

\* One <tr> of the raw-data table.
\* A row highlighted for posts alone.
RawRow_postsOnly(day) ==
    [date |-> day.date,
     highlight |-> day.posts > 0,
     revenue |-> day.revenue,
     orders |-> day.orders,
     sessions |-> day.sessions,
     visitors |-> day.visitors,
     pageViews |-> day.pageViews,
     posts |-> day.posts,
     campaigns |-> day.campaigns]

RawRow(day) ==
    [date |-> day.date,
     highlight |-> (day.posts > 0 \/ day.campaigns > 0),
     revenue |-> day.revenue,
     orders |-> day.orders,
     sessions |-> day.sessions,
     visitors |-> day.visitors,
     pageViews |-> day.pageViews,
     posts |-> day.posts,
     campaigns |-> day.campaigns]

\* timeline.reverse() called on the timeline itself: the stored array is
\* reversed in place.
TimelineAfterSliceReverse_inPlace(tl, start) == Reverse(tl)

\* What timeline.slice(start).reverse() leaves in the timeline: slice returns
\* a new array and reverse reverses that one, so the timeline keeps its
\* records and their order.
TimelineAfterSliceReverse(tl, start) == tl

\* The rows populateRawDataTable leaves in rawDataTableBody.
populateRawDataTable(tl, range) ==
    LET filteredData == Slice(tl, 0 - range)
        reversed == Reverse(filteredData)
    IN  [j \in 1 .. Len(reversed) |-> RawRow(reversed[j])]

\* Values of the dateRangeSelect options, as character sequences.
WordOptions ==
    { <<"c","u","s","t","o","m">>, <<"a","l","l">>,
      <<"w","t","d">>, <<"l","w">>, <<"m","t","d">>, <<"l","m">>,
      <<"q","t","d">>, <<"l","q">>, <<"y","t","d">>, <<"l","y">> }

NumericOptions == { <<"7">>, <<"1","4">>, <<"6","0">> }

RangeOptions == WordOptions \cup NumericOptions

DigitValue(c) ==
    CASE c = "0" -> 0 [] c = "1" -> 1 [] c = "2" -> 2 [] c = "3" -> 3
      [] c = "4" -> 4 [] c = "5" -> 5 [] c = "6" -> 6 [] c = "7" -> 7
      [] c = "8" -> 8 [] c = "9" -> 9

\* parseInt of a string of decimal digits.
RECURSIVE parseInt(_)
parseInt(str) ==
    IF Len(str) = 0 THEN 0
    ELSE 10 * parseInt(SubSeq(str, 1, Len(str) - 1)) + DigitValue(str[Len(str)])

\* The day count the change handler derives from the selected value.
RangeToDays(range) ==
    IF range = <<"a","l","l">> THEN 99999
    ELSE IF range = <<"w","t","d">> \/ range = <<"l","w">> THEN 7
    ELSE IF range = <<"m","t","d">> \/ range = <<"l","m">> THEN 30
    ELSE IF range = <<"q","t","d">> \/ range = <<"l","q">> THEN 90
    ELSE IF range = <<"y","t","d">> \/ range = <<"l","y">> THEN 365
    ELSE parseInt(range)

Abs(n) == IF n < 0 THEN 0 - n ELSE n

\* Math.ceil(a / b) for a >= 0, b > 0.
CeilDiv(a, b) == (a + b - 1) \div b

\* diffDays of the Apply handler.
CustomRangeDays(startDate, endDate) ==
    LET start == NewDateISO(startDate)
        end == NewDateISO(endDate)
        diffTime == Abs(end - start)
    IN  CeilDiv(diffTime, MinutesPerDay)

(***************************************************************************)
(* populateHeatMap of the enhanced build: what it leaves in               *)
(* heatmapContainer.  A selector that is not rendered is -1.               *)
(***************************************************************************)
\* The quarter options selected with inclusive upper limits (month <= 3 for
\* Q1, and so on).
QuarterOption_inclusive(month) ==
    IF month <= 3 THEN 0
    ELSE IF month > 3 /\ month <= 6 THEN 1
    ELSE IF month > 6 /\ month <= 9 THEN 2
    ELSE 3

QuarterOption(month) ==
    IF month < 3 THEN 0
    ELSE IF month >= 3 /\ month < 6 THEN 1
    ELSE IF month >= 6 /\ month < 9 THEN 2
    ELSE 3

populateHeatMap(year, month, view, engine, tza) ==
    [title |-> IF view = "month" THEN <<"month", month, year>>
               ELSE IF view = "quarter"
                    THEN <<"quarter", (month \div 3) + 1, year>>
               ELSE <<"year", 0, year>>,
     viewSelector |-> view,
     monthSelector |-> IF view = "month" THEN month ELSE -1,
     quarterSelector |-> IF view = "quarter" THEN QuarterOption(month) ELSE -1,
     yearSelector |-> year,
     grids |-> IF view = "month" THEN generateMonthView(year, month, engine, tza)
               ELSE IF view = "quarter"
                    THEN generateQuarterView(year, month, engine, tza)
               ELSE generateYearView(year, engine, tza)]

EmptyContainer ==
    [title |-> <<>>, viewSelector |-> "", monthSelector |-> -1,
     quarterSelector |-> -1, yearSelector |-> -1, grids |-> <<>>]

(***************************************************************************)
(* The heat map of website/js/app.js: one fixed month, its activity taken  *)
(* from analyticsData.weeklyData.                                          *)
(***************************************************************************)
\* weeklyData of website/js/data.js: eight week records, none with `days`.
weeklyData == [k \in 1 .. 8 |-> [hasDays |-> FALSE, days |-> <<>>]]

\* weeklyData of the bundled data: four weeks of seven days, revenue in cents.
weeklyData_bundle ==
    <<[hasDays |-> TRUE, days |-> <<
           [date |-> <<2026, 1, 6>>, posts |-> 1, campaigns |-> 0,
            revenue |-> 120000],
           [date |-> <<2026, 1, 7>>, posts |-> 0, campaigns |-> 1,
            revenue |-> 180000],
           [date |-> <<2026, 1, 8>>, posts |-> 1, campaigns |-> 0,
            revenue |-> 210000],
           [date |-> <<2026, 1, 9>>, posts |-> 0, campaigns |-> 0,
            revenue |-> 80000],
           [date |-> <<2026, 1, 10>>, posts |-> 2, campaigns |-> 1,
            revenue |-> 350000],
           [date |-> <<2026, 1, 11>>, posts |-> 0, campaigns |-> 0,
            revenue |-> 60000],
           [date |-> <<2026, 1, 12>>, posts |-> 1, campaigns |-> 0,
            revenue |-> 140000] >>],
      [hasDays |-> TRUE, days |-> <<
           [date |-> <<2026, 1, 13>>, posts |-> 0, campaigns |-> 1,
            revenue |-> 220000],
           [date |-> <<2026, 1, 14>>, posts |-> 1, campaigns |-> 0,
            revenue |-> 190000],
           [date |-> <<2026, 1, 15>>, posts |-> 2, campaigns |-> 0,
            revenue |-> 310000],
           [date |-> <<2026, 1, 16>>, posts |-> 0, campaigns |-> 0,
            revenue |-> 70000],
           [date |-> <<2026, 1, 17>>, posts |-> 1, campaigns |-> 1,
            revenue |-> 420000],
           [date |-> <<2026, 1, 18>>, posts |-> 0, campaigns |-> 0,
            revenue |-> 90000],
           [date |-> <<2026, 1, 19>>, posts |-> 1, campaigns |-> 0,
            revenue |-> 160000] >>],
      [hasDays |-> TRUE, days |-> <<
           [date |-> <<2026, 1, 20>>, posts |-> 1, campaigns |-> 0,
            revenue |-> 240000],
           [date |-> <<2026, 1, 21>>, posts |-> 0, campaigns |-> 1,
            revenue |-> 280000],
           [date |-> <<2026, 1, 22>>, posts |-> 2, campaigns |-> 0,
            revenue |-> 410000],
           [date |-> <<2026, 1, 23>>, posts |-> 0, campaigns |-> 0,
            revenue |-> 110000],
           [date |-> <<2026, 1, 24>>, posts |-> 1, campaigns |-> 1,
            revenue |-> 520000],
           [date |-> <<2026, 1, 25>>, posts |-> 0, campaigns |-> 0,
            revenue |-> 80000],
           [date |-> <<2026, 1, 26>>, posts |-> 1, campaigns |-> 0,
            revenue |-> 180000] >>],
      [hasDays |-> TRUE, days |-> <<
           [date |-> <<2026, 1, 27>>, posts |-> 2, campaigns |-> 1,
            revenue |-> 620000],
           [date |-> <<2026, 1, 28>>, posts |-> 1, campaigns |-> 0,
            revenue |-> 340000],
           [date |-> <<2026, 1, 29>>, posts |-> 0, campaigns |-> 1,
            revenue |-> 280000],
           [date |-> <<2026, 1, 30>>, posts |-> 1, campaigns |-> 0,
            revenue |-> 210000],
           [date |-> <<2026, 1, 31>>, posts |-> 0, campaigns |-> 0,
            revenue |-> 90000],
           [date |-> <<2026, 2, 1>>, posts |-> 1, campaigns |-> 1,
            revenue |-> 480000],
           [date |-> <<2026, 2, 2>>, posts |-> 0, campaigns |-> 0,
            revenue |-> 120000] >>] >>

\* The day records in the order the two nested forEach visit them.
RECURSIVE VisitedDays(_)
VisitedDays(weeks) ==
    IF weeks = <<>> THEN <<>>
    ELSE Head(weeks).days \o VisitedDays(Tail(weeks))

\* activityMap[dateStr] || zero record, the map filled in visiting order (a
\* later record of the same date replaces an earlier one).
LookupDay(days, dateStr) ==
    LET hits == {j \in 1 .. Len(days) : days[j].date = dateStr}
    IN  IF hits = {} THEN ZeroActivity
        ELSE LET d == days[CHOOSE j \in hits : \A i \in hits : i <= j]
             IN  [posts |-> d.posts, campaigns |-> d.campaigns,
                  revenue |-> d.revenue]

\* populateHeatMap() of website/js/app.js.  week.days.forEach raises a
\* TypeError on a week without `days`, before anything is rendered.
populateHeatMap_appjs(weeks, tza) ==
    LET currentDate == NewDateISO(<<2026, 1, 29>>)
        year == getFullYear(currentDate, tza)
        month == getMonth(currentDate, tza)
        days == VisitedDays(weeks)
        cell(day) ==
            Bind(LookupDay(days, DateStr(year, month, day)), LAMBDA activity :
                DayCell(month, day, DateStr(year, month, day),
                        getIntensityLevel_appjs(activity.posts,
                                                activity.campaigns,
                                                activity.revenue),
                        activity))
    IN  IF \E k \in 1 .. Len(weeks) : ~weeks[k].hasDays
        THEN [thrown |-> TRUE, year |-> year, month |-> month, grids |-> <<>>]
        ELSE [thrown |-> FALSE, year |-> year, month |-> month,
              grids |-> << [month |-> month,
                            cells |-> Repeat(HeaderCell, 7)
                                      \o Repeat(EmptyCell,
                                                StartingDayOfWeek(year, month,
                                                                  tza))
                                      \o [day \in 1 .. DaysInMonthOf(year,
                                                           month, tza) |->
                                             cell(day)]] >>]

\* The container of the app.js heat map before its first render.
NotRendered == [thrown |-> FALSE, year |-> 0, month |-> 0, grids |-> <<>>]

(***************************************************************************)
(* Tabs, platform filter and the social-media and Shopify tables.          *)
(***************************************************************************)
\* The page's tabs: each is a .tab-btn with this data-tab value and a
\* .tab-content panel with this id.  'social' and 'geography' are the two the
\* code names.
Tabs == {"dashboard", "social", "geography", "rawdata"}

\* data-tab values of the .tab-btn elements: every panel has its button, and
\* one button names an element the document does not hold (the listener
\* tests `if (tabContent)`).
TabButtons == Tabs \cup {"shopify"}

\* The tab the page marks active before any click.
FirstTab == "dashboard"

\* data-platform values of the dropdown items.
Platforms == {"instagram", "TikTok", "facebook"}

\* String.prototype.toLowerCase on the strings that occur.
toLowerCase(str) ==
    CASE str = "Instagram" -> "instagram"
      [] str = "TikTok" -> "tiktok"
      [] str = "Pinterest" -> "pinterest"
      [] OTHER -> str

\* analyticsData.socialPosts: date and platform of the five posts.
socialPosts ==
    << [date |-> <<2026, 1, 28>>, platform |-> "Instagram"],
       [date |-> <<2026, 1, 25>>, platform |-> "TikTok"],
       [date |-> <<2026, 1, 22>>, platform |-> "Instagram"],
       [date |-> <<2026, 1, 20>>, platform |-> "Pinterest"],
       [date |-> <<2026, 1, 18>>, platform |-> "Instagram"] >>

\* Array.prototype.filter with a platform test that compares the strings as
\* they are.
RECURSIVE FilterByPlatform_caseSensitive(_, _)
FilterByPlatform_caseSensitive(posts, filter) ==
    IF posts = <<>> THEN <<>>
    ELSE IF Head(posts).platform = filter
         THEN <<Head(posts)>>
                  \o FilterByPlatform_caseSensitive(Tail(posts), filter)
         ELSE FilterByPlatform_caseSensitive(Tail(posts), filter)

\* Array.prototype.filter with the platform test of populateSocialMediaTable.
RECURSIVE FilterByPlatform(_, _)
FilterByPlatform(posts, filter) ==
    IF posts = <<>> THEN <<>>
    ELSE IF toLowerCase(Head(posts).platform) = toLowerCase(filter)
         THEN <<Head(posts)>> \o FilterByPlatform(Tail(posts), filter)
         ELSE FilterByPlatform(Tail(posts), filter)

\* What posts.filter(...) leaves in posts: filter returns a new array.
PostsAfterFilter(posts) == posts

(***************************************************************************)
(* The hover behaviour of the social tab's dropdown                        *)
(* (setupSocialMediaDropdown).  The dropdown's state is a record: `shown`  *)
(* is class show on #socialDropdown, `pointer` is where the mouse pointer  *)
(* is, `timers` counts the pending setTimeout callbacks, and `nested`      *)
(* tells whether #socialDropdown is a descendant of #socialMediaTab.       *)
(***************************************************************************)
Places == {"outside", "tab", "dropdown"}

\* The dropdown when the page is loaded, for either markup.
ClosedDropdown(nested) ==
    [shown |-> FALSE, pointer |-> "outside", timers |-> 0, nested |-> nested]

DropdownStarts == {ClosedDropdown(nested) : nested \in BOOLEAN}

\* socialTab 'mouseenter' and dropdown 'mouseenter' listeners.
TabMouseenter(d) == [d EXCEPT !.shown = TRUE]

DropdownMouseenter(d) == [d EXCEPT !.shown = TRUE]

\* socialTab 'mouseleave' listener: setTimeout(..., 100).
TabMouseleave(d) == [d EXCEPT !.timers = @ + 1]

\* dropdown 'mouseleave' listener.
DropdownMouseleave(d) == [d EXCEPT !.shown = FALSE]

\* The deferred callback: hides unless dropdown.matches(':hover').
HideTimeout(d) ==
    [d EXCEPT !.timers = @ - 1,
              !.shown = IF d.pointer = "dropdown" THEN @ ELSE FALSE]

\* dropdown.classList.remove('show') of the dropdown item click listener.
DropdownAfterItemClick(d) == [d EXCEPT !.shown = FALSE]

\* The listeners a move of the pointer from d.pointer to `to` runs, applied
\* in dispatch order (mouseleave before mouseenter, inner element first on
\* leaving, outer element first on entering).  With the dropdown nested in
\* the tab, a move between the tab and the dropdown neither leaves nor
\* enters the tab.
PointerMove(d, to) ==
    LET from == d.pointer
        moved == [d EXCEPT !.pointer = to]
    IN  IF from = "outside" /\ to = "tab" THEN TabMouseenter(moved)
        ELSE IF from = "tab" /\ to = "outside" THEN TabMouseleave(moved)
        ELSE IF from = "tab" /\ to = "dropdown"
             THEN IF d.nested THEN DropdownMouseenter(moved)
                  ELSE DropdownMouseenter(TabMouseleave(moved))
        ELSE IF from = "dropdown" /\ to = "tab"
             THEN IF d.nested THEN DropdownMouseleave(moved)
                  ELSE TabMouseenter(DropdownMouseleave(moved))
        ELSE IF from = "dropdown" /\ to = "outside"
             THEN IF d.nested THEN TabMouseleave(DropdownMouseleave(moved))
                  ELSE DropdownMouseleave(moved)
        ELSE IF from = "outside" /\ to = "dropdown"
             THEN IF d.nested THEN DropdownMouseenter(TabMouseenter(moved))
                  ELSE DropdownMouseenter(moved)
        ELSE d

\* Whether the move runs the socialTab 'mouseleave' listener.
SchedulesTimer(d, to) == PointerMove(d, to).timers > d.timers

\* The rows populateSocialMediaTable leaves in socialTableBody.
populateSocialMediaTable(posts, filter) ==
    LET filteredPosts == IF filter # "all" THEN FilterByPlatform(posts, filter)
                         ELSE posts
    IN  IF Len(filteredPosts) = 0
        THEN << [kind |-> "message", date |-> <<>>, platform |-> filter] >>
        ELSE [j \in 1 .. Len(filteredPosts) |->
                 [kind |-> "post", date |-> filteredPosts[j].date,
                  platform |-> filteredPosts[j].platform]]

\* The rows populateShopifyTab leaves in shopifyTrafficTableBody.
populateShopifyTab(tl) ==
    LET recentData == Reverse(Slice(tl, -30))
    IN  [j \in 1 .. Len(recentData) |->
            [date |-> recentData[j].date,
             shopifySessions |-> recentData[j].shopifySessions,
             topSources |-> recentData[j].topSources,
             topCountries |-> recentData[j].topCountries,
             revenue |-> recentData[j].revenue]]

(***************************************************************************)
(* Country list of the geography tab (populateCountryList).                *)
(***************************************************************************)
\* analyticsData.countries as shipped: name and sessions of the eight records.
countriesData ==
    << [name |-> "India", sessions |-> 45200],
       [name |-> "United States", sessions |-> 28500],
       [name |-> "United Kingdom", sessions |-> 15800],
       [name |-> "UAE", sessions |-> 12400],
       [name |-> "Canada", sessions |-> 8900],
       [name |-> "Australia", sessions |-> 6200],
       [name |-> "Singapore", sessions |-> 4800],
       [name |-> "Germany", sessions |-> 3500] >>

\* The comparator (a, b) => a.sessions - b.sessions.
CompareCountries_ascending(a, b) == a.sessions - b.sessions

\* The comparator (a, b) => b.sessions - a.sessions.
CompareCountries(a, b) == b.sessions - a.sessions

\* Array.prototype.sort(compare) is stable: an element goes behind every
\* element it does not sort before.
RECURSIVE InsertSorted(_, _)
InsertSorted(sorted, c) ==
    IF sorted = <<>> THEN <<c>>
    ELSE IF CompareCountries(Head(sorted), c) <= 0
         THEN <<Head(sorted)>> \o InsertSorted(Tail(sorted), c)
         ELSE <<c>> \o sorted

RECURSIVE SortCountries(_)
SortCountries(arr) ==
    IF arr = <<>> THEN <<>>
    ELSE InsertSorted(SortCountries(SubSeq(arr, 1, Len(arr) - 1)),
                      arr[Len(arr)])

\* What [...arr].sort(compare) leaves in arr: the spread copies the array and
\* sort reorders the copy.
CountriesAfterSpreadSort(arr) == arr

\* The items populateCountryList leaves in countryList:
\* sortedCountries.slice(0, 10), one item each.
populateCountryList(arr) ==
    LET sortedCountries == SortCountries(arr)
    IN  [j \in 1 .. Min(10, Len(sortedCountries)) |->
            [name |-> sortedCountries[j].name,
             sessions |-> sortedCountries[j].sessions]]

(***************************************************************************)
(* run_daily_update.sh.  The script runs under `set -e`: a command that    *)
(* fails outside an `if` condition ends the script with a non-zero status. *)
(***************************************************************************)
\* The repository and the script before its first command: which generated
\* files exist, whether tracked files differ from the index (the two
\* generated files, other files), whether the index differs from HEAD.
ScriptStarts ==
    [pc : {"fetch"}, excel : BOOLEAN, json : BOOLEAN,
     changedGenerated : BOOLEAN, changedOther : BOOLEAN, staged : BOOLEAN,
     log : {<<>>}, failed : {""}, detected : {""}, status : {-1}]

\* A checkout without the generated files and without changes.
CleanCheckout ==
    [pc |-> "fetch", excel |-> FALSE, json |-> FALSE,
     changedGenerated |-> FALSE, changedOther |-> FALSE, staged |-> FALSE,
     log |-> <<>>, failed |-> "", detected |-> "", status |-> -1]

\* exit with status n at command `at`.
Exit(s, at, n) == [s EXCEPT !.pc = "exited", !.failed = at, !.status = n]

\* A generator command: it fails (set -e ends the script), or it returns 0
\* having written its output file or not; a written file differs from the
\* indexed one or not (same content, or a file git does not track).
RunGenerator(s, name, ok, writes, differs, next) ==
    LET ran == [s EXCEPT !.log = Append(@, name)]
    IN  IF ~ok THEN Exit(ran, name, 1)
        ELSE [ran EXCEPT
                 !.pc = next,
                 !.excel = IF name = "fetch" THEN @ \/ writes ELSE @,
                 !.json = IF name = "export" THEN @ \/ writes ELSE @,
                 !.changedGenerated = @ \/ (writes /\ differs)]

\* if [ ! -f "data/Marketing_Analytics_Feed.xlsx" ]; then ... exit 1; fi,
\* without the exit.
CheckFile_noExit(s, exists, missing, next) == [s EXCEPT !.pc = next]

\* if [ ! -f FILE ]; then echo ...; exit 1; fi
CheckFile(s, exists, missing, next) ==
    IF ~exists THEN Exit(s, missing, 1) ELSE [s EXCEPT !.pc = next]

\* if git diff --quiet && git diff --cached --quiet; then (no changes) else
\* (deploy).  The second command runs only when the first returns 0.
GitDiff(s) ==
    LET quiet == ~(s.changedGenerated \/ s.changedOther)
        cachedQuiet == ~s.staged
        ran == [s EXCEPT
                   !.log = IF quiet THEN @ \o <<"diff", "diffCached">>
                           ELSE Append(@, "diff")]
    IN  IF quiet /\ cachedQuiet
        THEN [ran EXCEPT !.detected = "none", !.pc = "finish"]
        ELSE [ran EXCEPT !.detected = "changes", !.pc = "add"]

\* git add data/Marketing_Analytics_Feed.xlsx; git add website/js/data.js
GitAdd(s, ok) ==
    LET ran == [s EXCEPT !.log = Append(@, "add")]
    IN  IF ~ok THEN Exit(ran, "add", 1)
        ELSE [ran EXCEPT !.pc = "commit",
                         !.staged = @ \/ s.changedGenerated,
                         !.changedGenerated = FALSE]

\* git commit -m "Daily update: ...": fails with nothing staged.
GitCommit(s, ok) ==
    LET ran == [s EXCEPT !.log = Append(@, "commit")]
    IN  IF ~ok \/ ~s.staged THEN Exit(ran, "commit", 1)
        ELSE [ran EXCEPT !.pc = "push", !.staged = FALSE,
                         !.log = Append(@, "committed")]

\* git push origin main
GitPush(s, ok) ==
    LET ran == [s EXCEPT !.log = Append(@, "push")]
    IN  IF ~ok THEN Exit(ran, "push", 1)
        ELSE [ran EXCEPT !.pc = "finish", !.log = Append(@, "pushed")]

(***************************************************************************)
(* State.                                                                  *)
(***************************************************************************)
VARIABLES
    pc,                  \* "generating", "loaded" (scripts evaluated), "ready"
    tza,                 \* the host's offset from UTC, minutes
    engine,              \* the host's Math.sin approximation
    rngState,            \* Math.random's state
    genI,                \* generateTimelineData: the loop variable i
    data,                \* generateTimelineData: the array being filled
    timeline,            \* analyticsData.timeline
    currentDateRange,
    startDateValue,      \* document.getElementById('startDate').value
    endDateValue,        \* document.getElementById('endDate').value
    customRangeDisplay,  \* customRangeDiv.style.display
    rawDataTableBody,    \* rows of the raw-data table
    lastEvent,           \* the last callback run and what it did
    currentHeatMapYear,
    currentHeatMapMonth,
    currentHeatMapView,
    heatmapContainer,    \* what populateHeatMap rendered
    appjsContainer,      \* what website/js/app.js's populateHeatMap rendered
    repeatedCall,        \* the last populateHeatMap call was given the
                         \* arguments of the call before it
    classifierCall,      \* a call of getIntensityLevel and what it returned
    activeBtns,          \* data-tab of the .tab-btn elements with class active
    activePanels,        \* ids of the .tab-content elements with class active
    currentPlatformFilter,
    socialTableBody,     \* rows of the social-media table
    shopifyTableBody,    \* rows of the Shopify traffic table
    initRun,             \* initializeApp of website/js: steps done, error raised
    countries,           \* analyticsData.countries
    countryList,         \* items of the country list
    script,              \* run_daily_update.sh: position, files, work tree, commands run
    analyticsSocialPosts, \* analyticsData.socialPosts
    dropdown,            \* #socialDropdown and the mouse pointer
    eventCount           \* user events handled so far in a session of at
                         \* most MaxSteps events; Unlimited when the session
                         \* is not limited

loadVars == <<pc, rngState, genI, data, timeline>>

genVars == <<pc, rngState, genI, data>>

hostVars == <<tza, engine>>

tableVars == <<currentDateRange, startDateValue, endDateValue,
               customRangeDisplay, rawDataTableBody>>

heatVars == <<currentHeatMapYear, currentHeatMapMonth, currentHeatMapView,
              heatmapContainer, appjsContainer, repeatedCall>>

geoVars == <<countries, countryList>>

uiVars == <<activeBtns, activePanels, currentPlatformFilter, socialTableBody>>

vars == <<pc, tza, engine, rngState, genI, data, timeline, currentDateRange,
          startDateValue, endDateValue, customRangeDisplay, rawDataTableBody,
          lastEvent, currentHeatMapYear, currentHeatMapMonth,
          currentHeatMapView, heatmapContainer, appjsContainer,
          repeatedCall, classifierCall, activeBtns, activePanels,
          currentPlatformFilter, socialTableBody, shopifyTableBody,
          eventCount, initRun,
          countries,
          countryList,
          script,
          analyticsSocialPosts,
          dropdown>>

\* Bounds of the model.
NumSeeds == 2
NumEngines == 2
MaxEvents == 3
MaxSteps == 2
MaxCountries == 12
MaxTimers == 3
SessionLevels == 5

TimeZones == {-480, 0, 330}

\* A seed whose first draw is 4997 / RandMod: the first record's revenue is
\* then 800 + 4.997 = 804.997, within half a cent below 23 * 35.
RoundingSeed == 309524

\* The host seeds Math.random with any state.
Seeds == {(977 * k) % RandMod : k \in 1 .. NumSeeds} \cup {RoundingSeed}

Engines == 1 .. NumEngines

Unlimited == -1

NoCall == [posts |-> 0, campaigns |-> 0, revenue |-> 0, called |-> FALSE,
           enhanced |-> "", appjs |-> ""]

\* initializeApp's calls, in their order (website/js/app.js).
InitSteps ==
    << "setupTabSwitching", "setupSocialMediaDropdown", "setupDateFilters",
       "populateSummaryStats", "populateDateRange", "initializeCharts",
       "populateSocialMediaTable", "populateHeatMap", "initializeMap",
       "populateShopifyTab", "populateRawDataTable", "updateLastUpdateTime" >>

StepNames == {InitSteps[k] : k \in 1 .. Len(InitSteps)}

\* analyticsData.weeklyData of the data file named.
WeeklyDataOf(file) == IF file = "data.js" THEN weeklyData ELSE weeklyData_bundle

\* The page website/js/app.js runs in: `absent` is the step whose DOM target
\* the document lacks ("" when every target exists), `weeks` the data file
\* weeklyData comes from.
ShippedPage == [step |-> 0, raised |-> FALSE, absent |-> "", weeks |-> "data.js"]

InitRuns ==
    [step : {0}, raised : {FALSE}, absent : StepNames \cup {""},
     weeks : {"data.js", "bundle"}]

\* Arrays analyticsData.countries may hold: the shipped one, and arrays of up
\* to MaxCountries records whose sessions repeat and come in several orders.
CountryArrays ==
    {countriesData} \cup
    { [k \in 1 .. n |->
          [name |-> k, sessions |-> 1000 * ((a * k + b) % SessionLevels)]] :
      n \in 0 .. MaxCountries, a \in 0 .. SessionLevels - 1,
      b \in 0 .. SessionLevels - 1 }

\* The state when the scripts start to be evaluated: the module-level lets
\* hold their initial values and generateTimelineData is about to run.
Init ==
    /\ pc = "generating"
    /\ tza \in TimeZones
    /\ engine \in Engines
    /\ rngState \in Seeds
    /\ genI = TimelineDays - 1
    /\ data = <<>>
    /\ timeline = <<>>
    /\ currentDateRange = 30
    /\ startDateValue = <<>>
    /\ endDateValue = <<>>
    /\ customRangeDisplay = "none"
    /\ rawDataTableBody = <<>>
    /\ lastEvent = [handler |-> "", effects |-> {}]
    /\ currentHeatMapYear = 2026
    /\ currentHeatMapMonth = 0
    /\ currentHeatMapView = "month"
    /\ heatmapContainer = EmptyContainer
    /\ appjsContainer = NotRendered
    /\ repeatedCall = FALSE
    /\ activeBtns = {FirstTab}
    /\ activePanels = {FirstTab}
    /\ currentPlatformFilter = "all"
    /\ socialTableBody = <<>>
    /\ shopifyTableBody = <<>>
    /\ eventCount \in {Unlimited, 0}
    /\ classifierCall = NoCall
    /\ dropdown \in DropdownStarts
    /\ analyticsSocialPosts = socialPosts
    /\ script \in ScriptStarts
    /\ countryList = <<>>
    /\ countries \in CountryArrays
    /\ initRun \in InitRuns

\* One more user event handled, while the session allows it.
Tick ==
    /\ eventCount < MaxSteps
    /\ eventCount' = IF eventCount = Unlimited THEN Unlimited
                     ELSE eventCount + 1

(***************************************************************************)
(* Page load.                                                              *)
(***************************************************************************)
\* One pass of generateTimelineData's loop.
GenStep ==
    /\ pc = "generating"
    /\ genI >= 0
    /\ data' = Append(data, TimelineRecord(genI, rngState, tza))
    /\ rngState' = RandomAfter(rngState, 6)
    /\ genI' = genI - 1
    /\ UNCHANGED <<pc, timeline, hostVars, dropdown, analyticsSocialPosts,
                   script, geoVars, initRun, tableVars, heatVars, lastEvent,
                   classifierCall, uiVars, shopifyTableBody, eventCount>>

\* return data; the array becomes analyticsData.timeline.
GenReturn ==
    /\ pc = "generating"
    /\ genI < 0
    /\ timeline' = data
    /\ pc' = "loaded"
    /\ UNCHANGED <<rngState, genI, data, hostVars, dropdown,
                   analyticsSocialPosts, script, geoVars, initRun, tableVars,
                   heatVars, lastEvent, classifierCall, uiVars,
                   shopifyTableBody, eventCount>>

\* DOMContentLoaded: initializeApp renders the heat map, the tables and the
\* country list with the initial selection and the initial date range.
DOMContentLoaded ==
    /\ pc = "loaded"
    /\ pc' = "ready"
    /\ heatmapContainer' =
           populateHeatMap(currentHeatMapYear, currentHeatMapMonth,
                           currentHeatMapView, engine, tza)
    /\ rawDataTableBody' = populateRawDataTable(timeline, currentDateRange)
    /\ socialTableBody' =
           populateSocialMediaTable(analyticsSocialPosts, currentPlatformFilter)
    /\ shopifyTableBody' = populateShopifyTab(timeline)
    /\ countryList' = populateCountryList(countries)
    /\ countries' = CountriesAfterSpreadSort(countries)
    /\ timeline' = TimelineAfterSliceReverse(
                       TimelineAfterSliceReverse(timeline, -30),
                       0 - currentDateRange)
    /\ analyticsSocialPosts' =
           IF currentPlatformFilter = "all" THEN analyticsSocialPosts
           ELSE PostsAfterFilter(analyticsSocialPosts)
    /\ lastEvent' = [handler |-> "initializeApp",
                     effects |-> {"renderSocial", "renderHeat",
                                  "renderShopify", "renderRaw"}]
    /\ UNCHANGED <<rngState, genI, data, hostVars, dropdown, script, initRun,
                   currentDateRange, startDateValue, endDateValue,
                   customRangeDisplay, currentHeatMapYear, currentHeatMapMonth,
                   currentHeatMapView, appjsContainer, repeatedCall,
                   classifierCall, activeBtns, activePanels,
                   currentPlatformFilter, eventCount>>

Load == GenStep \/ GenReturn \/ DOMContentLoaded

\* Whether a step of initializeApp raises, given the step whose DOM target is
\* absent and the weeklyData in use.  populateSummaryStats assigns to
\* document.getElementById(...).textContent without a guard; populateHeatMap
\* returns early without its container, and otherwise raises on a week
\* without `days`.  Every other step returns early or skips the element.
StepRaises(name, absent, weeks) ==
    \/ name = "populateSummaryStats" /\ absent = name
    \/ /\ name = "populateHeatMap"
       /\ absent # name
       /\ populateHeatMap_appjs(weeks, tza).thrown

\* The next call of initializeApp (website/js/app.js), after the scripts are
\* evaluated.  A step that raises ends initializeApp: no later step runs.
InitializeAppStep ==
    /\ pc = "loaded"
    /\ ~initRun.raised
    /\ initRun.step < Len(InitSteps)
    /\ LET name == InitSteps[initRun.step + 1]
           present == initRun.absent # name
           raises == StepRaises(name, initRun.absent,
                                WeeklyDataOf(initRun.weeks))
       IN  /\ initRun' = [initRun EXCEPT
                             !.step = IF raises THEN @ ELSE @ + 1,
                             !.raised = raises]
           /\ socialTableBody' =
                  IF name = "populateSocialMediaTable" /\ present
                  THEN populateSocialMediaTable(analyticsSocialPosts,
                                                currentPlatformFilter)
                  ELSE socialTableBody
           /\ analyticsSocialPosts' =
                  IF name = "populateSocialMediaTable" /\ present
                        /\ currentPlatformFilter # "all"
                  THEN PostsAfterFilter(analyticsSocialPosts)
                  ELSE analyticsSocialPosts
           /\ appjsContainer' =
                  IF name = "populateHeatMap" /\ present /\ ~raises
                  THEN populateHeatMap_appjs(WeeklyDataOf(initRun.weeks), tza)
                  ELSE appjsContainer
           /\ shopifyTableBody' =
                  IF name = "populateShopifyTab" /\ present
                  THEN populateShopifyTab(timeline)
                  ELSE shopifyTableBody
           /\ rawDataTableBody' =
                  IF name = "populateRawDataTable" /\ present
                  THEN populateRawDataTable(timeline, currentDateRange)
                  ELSE rawDataTableBody
           /\ countryList' =
                  IF name = "initializeMap" /\ present
                  THEN populateCountryList(countries)
                  ELSE countryList
           /\ countries' =
                  IF name = "initializeMap" /\ present
                  THEN CountriesAfterSpreadSort(countries)
                  ELSE countries
           /\ timeline' =
                  IF name = "populateShopifyTab" /\ present
                  THEN TimelineAfterSliceReverse(timeline, -30)
                  ELSE IF name = "populateRawDataTable" /\ present
                       THEN TimelineAfterSliceReverse(timeline,
                                                      0 - currentDateRange)
                       ELSE timeline
    /\ UNCHANGED <<genVars, hostVars, dropdown, script, currentDateRange,
                   startDateValue, endDateValue, customRangeDisplay, lastEvent,
                   currentHeatMapYear, currentHeatMapMonth, currentHeatMapView,
                   heatmapContainer, repeatedCall, classifierCall, activeBtns,
                   activePanels, currentPlatformFilter, eventCount>>

(***************************************************************************)
(* Date-range events (setupDateFilters).                                   *)
(***************************************************************************)
\* The change handler with a populateRawDataTable that does not clear the
\* table body before appending its rows.
DateRangeChange_append(range) ==
    /\ pc = "ready"
    /\ IF range = <<"c","u","s","t","o","m">>
       THEN /\ customRangeDisplay' = "flex"
            /\ lastEvent' = [handler |-> "dateRangeChange", effects |-> {}]
            /\ UNCHANGED <<currentDateRange, rawDataTableBody, timeline>>
       ELSE /\ customRangeDisplay' = "none"
            /\ currentDateRange' = RangeToDays(range)
            /\ rawDataTableBody' =
                   rawDataTableBody
                       \o populateRawDataTable(timeline, RangeToDays(range))
            /\ timeline' = TimelineAfterSliceReverse(timeline,
                                                     0 - RangeToDays(range))
            /\ lastEvent' = [handler |-> "dateRangeChange",
                             effects |-> {"renderRaw"}]
    /\ Tick
    /\ UNCHANGED <<genVars, hostVars, dropdown, analyticsSocialPosts, script,
                   geoVars, initRun, startDateValue, endDateValue, heatVars,
                   classifierCall, uiVars, shopifyTableBody>>

\* The change handler of dateRangeSelect, for the selected value `range`.
DateRangeChange(range) ==
    /\ pc = "ready"
    /\ IF range = <<"c","u","s","t","o","m">>
       THEN /\ customRangeDisplay' = "flex"
            /\ lastEvent' = [handler |-> "dateRangeChange", effects |-> {}]
            /\ UNCHANGED <<currentDateRange, rawDataTableBody, timeline>>
       ELSE /\ customRangeDisplay' = "none"
            /\ currentDateRange' = RangeToDays(range)
            /\ rawDataTableBody' =
                   populateRawDataTable(timeline, RangeToDays(range))
            /\ timeline' = TimelineAfterSliceReverse(timeline,
                                                     0 - RangeToDays(range))
            /\ lastEvent' = [handler |-> "dateRangeChange",
                             effects |-> {"renderRaw"}]
    /\ Tick
    /\ UNCHANGED <<genVars, hostVars, dropdown, analyticsSocialPosts, script,
                   geoVars, initRun, startDateValue, endDateValue, heatVars,
                   classifierCall, uiVars, shopifyTableBody>>

\* Dates the user picks in the two date inputs.
DateChoices == { <<2025, 12, 5>>, <<2026, 1, 1>>, <<2026, 1, 10>> }

\* The user sets or clears the start date input; no handler is attached.
InputStartDate(v) ==
    /\ pc = "ready"
    /\ startDateValue' = v
    /\ lastEvent' = [handler |-> "", effects |-> {}]
    /\ Tick
    /\ UNCHANGED <<loadVars, hostVars, dropdown, analyticsSocialPosts, script,
                   geoVars, initRun, currentDateRange, endDateValue,
                   customRangeDisplay, rawDataTableBody, heatVars,
                   classifierCall, uiVars, shopifyTableBody>>

InputEndDate(v) ==
    /\ pc = "ready"
    /\ endDateValue' = v
    /\ lastEvent' = [handler |-> "", effects |-> {}]
    /\ Tick
    /\ UNCHANGED <<loadVars, hostVars, dropdown, analyticsSocialPosts, script,
                   geoVars, initRun, currentDateRange, startDateValue,
                   customRangeDisplay, rawDataTableBody, heatVars,
                   classifierCall, uiVars, shopifyTableBody>>

\* The Apply handler with an incomplete pair re-rendering for a zero window.
ApplyCustomRangeEffect_rerender(startDate, endDate, range, table, tl) ==
    IF Len(startDate) > 0 /\ Len(endDate) > 0
    THEN [currentDateRange |-> CustomRangeDays(startDate, endDate),
          rawDataTableBody |->
              populateRawDataTable(tl, CustomRangeDays(startDate, endDate)),
          effects |-> {"renderRaw"}]
    ELSE [currentDateRange |-> 0,
          rawDataTableBody |-> populateRawDataTable(tl, 0),
          effects |-> {"renderRaw"}]

\* What the click handler of applyCustomRange does, given the two input
\* values, the current range and table, and the timeline.
ApplyCustomRangeEffect(startDate, endDate, range, table, tl) ==
    IF Len(startDate) > 0 /\ Len(endDate) > 0
    THEN [currentDateRange |-> CustomRangeDays(startDate, endDate),
          rawDataTableBody |->
              populateRawDataTable(tl, CustomRangeDays(startDate, endDate)),
          effects |-> {"renderRaw"}]
    ELSE [currentDateRange |-> range,
          rawDataTableBody |-> table,
          effects |-> {"alert"}]

ApplyCustomRange ==
    /\ pc = "ready"
    /\ LET e == ApplyCustomRangeEffect(startDateValue, endDateValue,
                                       currentDateRange, rawDataTableBody,
                                       timeline)
       IN  /\ currentDateRange' = e.currentDateRange
           /\ rawDataTableBody' = e.rawDataTableBody
           /\ timeline' = IF "renderRaw" \in e.effects
                          THEN TimelineAfterSliceReverse(
                                   timeline, 0 - e.currentDateRange)
                          ELSE timeline
           /\ lastEvent' = [handler |-> "applyCustomRange",
                            effects |-> e.effects]
    /\ Tick
    /\ UNCHANGED <<genVars, hostVars, dropdown, analyticsSocialPosts, script,
                   geoVars, initRun, startDateValue, endDateValue,
                   customRangeDisplay, heatVars, classifierCall, uiVars,
                   shopifyTableBody>>

DateEvents ==
    \/ \E range \in RangeOptions : DateRangeChange(range)
    \/ \E v \in DateChoices \cup {<<>>} : InputStartDate(v)
    \/ \E v \in DateChoices \cup {<<>>} : InputEndDate(v)
    \/ ApplyCustomRange

(***************************************************************************)
(* Heat-map selector events (the listeners populateHeatMap attaches).      *)
(***************************************************************************)
\* populateHeatMap(year, month, view) as an action.
\* populateHeatMap adding its grid to what the container already holds
\* (container.innerHTML += calendarHtml).
PopulateHeatMap_append(year, month, view, handler) ==
    /\ currentHeatMapYear' = year
    /\ currentHeatMapMonth' = month
    /\ currentHeatMapView' = view
    /\ heatmapContainer' =
           [populateHeatMap(year, month, view, engine, tza) EXCEPT
               !.grids = heatmapContainer.grids \o @]
    /\ repeatedCall' = (<<year, month, view>> = <<currentHeatMapYear,
                                                 currentHeatMapMonth,
                                                 currentHeatMapView>>)
    /\ lastEvent' = [handler |-> handler, effects |-> {"renderHeat"}]
    /\ Tick
    /\ UNCHANGED <<loadVars, hostVars, dropdown, analyticsSocialPosts, script,
                   geoVars, initRun, tableVars, appjsContainer, classifierCall,
                   uiVars, shopifyTableBody>>

PopulateHeatMap(year, month, view, handler) ==
    /\ currentHeatMapYear' = year
    /\ currentHeatMapMonth' = month
    /\ currentHeatMapView' = view
    /\ heatmapContainer' = populateHeatMap(year, month, view, engine, tza)
    /\ repeatedCall' = (<<year, month, view>> = <<currentHeatMapYear,
                                                 currentHeatMapMonth,
                                                 currentHeatMapView>>)
    /\ lastEvent' = [handler |-> handler, effects |-> {"renderHeat"}]
    /\ Tick
    /\ UNCHANGED <<loadVars, hostVars, dropdown, analyticsSocialPosts, script,
                   geoVars, initRun, tableVars, appjsContainer, classifierCall,
                   uiVars, shopifyTableBody>>

\* The view selector's listener taking the month to the first month of its
\* quarter when the quarter view is selected.
ViewSelectorChange_quarterStart(v) ==
    /\ pc = "ready"
    /\ PopulateHeatMap(currentHeatMapYear,
                       IF v = "quarter" THEN (currentHeatMapMonth \div 3) * 3
                       ELSE currentHeatMapMonth,
                       v, "viewSelector")

ViewSelectorChange(v) ==
    /\ pc = "ready"
    /\ PopulateHeatMap(currentHeatMapYear, currentHeatMapMonth, v,
                       "viewSelector")

MonthSelectorChange(i) ==
    /\ pc = "ready"
    /\ heatmapContainer.monthSelector # -1
    /\ PopulateHeatMap(currentHeatMapYear, i, currentHeatMapView,
                       "monthSelector")

QuarterSelectorChange(q) ==
    /\ pc = "ready"
    /\ heatmapContainer.quarterSelector # -1
    /\ PopulateHeatMap(currentHeatMapYear, q * 3, currentHeatMapView,
                       "quarterSelector")

YearSelectorChange(y) ==
    /\ pc = "ready"
    /\ PopulateHeatMap(y, currentHeatMapMonth, currentHeatMapView,
                       "yearSelector")

HeatEvents ==
    \/ \E v \in {"month", "quarter", "year"} : ViewSelectorChange(v)
    \/ \E i \in 0 .. 11 : MonthSelectorChange(i)
    \/ \E q \in 0 .. 3 : QuarterSelectorChange(q)
    \/ \E y \in {2024, 2025, 2026} : YearSelectorChange(y)

(***************************************************************************)
(* Tab and platform events (setupTabSwitching, setupSocialMediaDropdown).  *)
(***************************************************************************)
\* activateTab without the two forEach loops that remove class active.
activateTab_keepsActive(tabId) ==
    << activeBtns \cup {b \in TabButtons : b = tabId},
       activePanels \cup {c \in Tabs : c = tabId} >>

\* activateTab(tabId): <<buttons, panels>> carrying class active afterwards.
\* Every class active is removed, then it is added to the button with
\* data-tab = tabId and to the element with id = tabId, where they exist.
activateTab(tabId) ==
    << {b \in TabButtons : b = tabId}, {c \in Tabs : c = tabId} >>

\* The click listener of the .tab-btn with data-tab = tab.  The button of the
\* social tab is clicked through SocialTabClick.
TabClick(tab) ==
    /\ pc = "ready"
    /\ activeBtns' = {tab}
    /\ activePanels' = IF tab \in Tabs THEN {tab} ELSE {}
    /\ lastEvent' = [handler |-> "tabClick", effects |-> {}]
    /\ Tick
    /\ UNCHANGED <<loadVars, hostVars, dropdown, analyticsSocialPosts, script,
                   geoVars, initRun, tableVars, heatVars, classifierCall,
                   currentPlatformFilter, socialTableBody, shopifyTableBody>>

\* A click on socialMediaTab: the .tab-btn listener of the social button,
\* then the listener setupSocialMediaDropdown attached.
SocialTabClick ==
    /\ pc = "ready"
    /\ currentPlatformFilter' = "all"
    /\ activeBtns' = activateTab("social")[1]
    /\ activePanels' = activateTab("social")[2]
    /\ socialTableBody' = populateSocialMediaTable(analyticsSocialPosts, "all")
    /\ analyticsSocialPosts' =
           analyticsSocialPosts
    /\ lastEvent' = [handler |-> "socialTabClick",
                     effects |-> {"renderSocial"}]
    /\ Tick
    /\ UNCHANGED <<loadVars, hostVars, dropdown, script, geoVars, initRun,
                   tableVars, heatVars, classifierCall, shopifyTableBody>>

\* A click on a dropdown item that also reaches the listener of
\* socialMediaTab (no stopPropagation): the filter ends as 'all'.
DropdownItemClick_propagates(platform) ==
    /\ pc = "ready"
    /\ currentPlatformFilter' = "all"
    /\ activeBtns' = activateTab("social")[1]
    /\ activePanels' = activateTab("social")[2]
    /\ socialTableBody' = populateSocialMediaTable(analyticsSocialPosts, "all")
    /\ analyticsSocialPosts' =
           analyticsSocialPosts
    /\ dropdown' = DropdownAfterItemClick(dropdown)
    /\ lastEvent' = [handler |-> "dropdownItemClick",
                     effects |-> {"renderSocial"}]
    /\ Tick
    /\ UNCHANGED <<loadVars, hostVars, script, geoVars, initRun, tableVars,
                   heatVars, classifierCall, shopifyTableBody>>

\* A click on the dropdown item of `platform`; stopPropagation keeps the
\* click from the listeners of socialMediaTab.
DropdownItemClick(platform) ==
    /\ pc = "ready"
    /\ currentPlatformFilter' = platform
    /\ activeBtns' = activateTab("social")[1]
    /\ activePanels' = activateTab("social")[2]
    /\ socialTableBody' = populateSocialMediaTable(analyticsSocialPosts, platform)
    /\ analyticsSocialPosts' =
           PostsAfterFilter(analyticsSocialPosts)
    /\ dropdown' = DropdownAfterItemClick(dropdown)
    /\ lastEvent' = [handler |-> "dropdownItemClick",
                     effects |-> {"renderSocial"}]
    /\ Tick
    /\ UNCHANGED <<loadVars, hostVars, script, geoVars, initRun, tableVars,
                   heatVars, classifierCall, shopifyTableBody>>

\* A call activateTab(tabId) on its own.
ActivateTabCall(tabId) ==
    /\ pc = "ready"
    /\ activeBtns' = activateTab(tabId)[1]
    /\ activePanels' = activateTab(tabId)[2]
    /\ lastEvent' = [handler |-> "activateTab", effects |-> {}]
    /\ Tick
    /\ UNCHANGED <<loadVars, hostVars, dropdown, analyticsSocialPosts, script,
                   geoVars, initRun, tableVars, heatVars, classifierCall,
                   currentPlatformFilter, socialTableBody, shopifyTableBody>>

\* Identifiers activateTab is called with: every button, and one that names
\* neither a button nor a panel.
TabIds == TabButtons \cup {"none"}

ActivateTabCalls == \E tabId \in TabIds : ActivateTabCall(tabId)

\* The pointer moves to `to`, and the mouseenter and mouseleave listeners of
\* the elements it leaves and enters run.  A dropdown without class show is
\* not displayed, so the pointer cannot be moved onto it.
MouseMove(to) ==
    /\ pc = "ready"
    /\ to # dropdown.pointer
    /\ to = "dropdown" => dropdown.shown
    /\ SchedulesTimer(dropdown, to) => dropdown.timers < MaxTimers
    /\ dropdown' = PointerMove(dropdown, to)
    /\ lastEvent' = [handler |-> "mouseMove", effects |-> {}]
    /\ UNCHANGED <<loadVars, hostVars, analyticsSocialPosts, script, geoVars,
                   initRun, tableVars, heatVars, classifierCall, uiVars,
                   shopifyTableBody, eventCount>>

\* One callback scheduled by the socialTab 'mouseleave' listener runs.
HideTimerFires ==
    /\ pc = "ready"
    /\ dropdown.timers > 0
    /\ dropdown' = HideTimeout(dropdown)
    /\ lastEvent' = [handler |-> "hideTimeout", effects |-> {}]
    /\ UNCHANGED <<loadVars, hostVars, analyticsSocialPosts, script, geoVars,
                   initRun, tableVars, heatVars, classifierCall, uiVars,
                   shopifyTableBody, eventCount>>

HoverEvents ==
    \/ \E to \in Places : MouseMove(to)
    \/ HideTimerFires

UIEvents ==
    \/ \E tab \in TabButtons \ {"social"} : TabClick(tab)
    \/ SocialTabClick
    \/ \E platform \in Platforms : DropdownItemClick(platform)

(***************************************************************************)
(* Direct calls of the two pure entry points.                              *)
(***************************************************************************)
\* Years populateHeatMap is called with; the year selector offers 2024-2026.
CalendarYears == {2000, 2023, 2024, 2025, 2026, 2100}

\* populateHeatMap(year, month, view) called with explicit arguments.  What
\* it renders depends on its arguments and the host alone, so the call that
\* follows page load is the one followed.
CalendarCall(year, month, view) ==
    /\ pc = "ready"
    /\ lastEvent.handler = "initializeApp"
    /\ PopulateHeatMap(year, month, view, "populateHeatMap")

CalendarCalls ==
    \E year \in CalendarYears, month \in 0 .. 11,
       view \in {"month", "quarter", "year"} : CalendarCall(year, month, view)

\* Months populateHeatMap is called with when the caller is not a selector:
\* any number, here the months around both ends of 0..11.
MonthArguments == {-1, 0, 11, 12, 13}

\* populateHeatMap(year, month, view) with a month of MonthArguments.
CalendarCallAnyMonth(year, month, view) ==
    /\ pc = "ready"
    /\ lastEvent.handler = "initializeApp"
    /\ PopulateHeatMap(year, month, view, "populateHeatMap")

CalendarCallsAnyMonth ==
    \E year \in CalendarYears, month \in MonthArguments,
       view \in {"month", "quarter", "year"} :
        CalendarCallAnyMonth(year, month, view)

\* populateHeatMap() of website/js/app.js called with analyticsData.weeklyData
\* being `weeks`.  A TypeError leaves the container as it was.
AppjsCalendarCall(weeks) ==
    /\ pc = "ready"
    /\ lastEvent.handler = "initializeApp"
    /\ LET r == populateHeatMap_appjs(weeks, tza)
       IN  /\ appjsContainer' = r
           /\ lastEvent' = [handler |-> "populateHeatMap_appjs",
                            effects |-> IF r.thrown THEN {"TypeError"}
                                        ELSE {"renderHeat"}]
    /\ UNCHANGED <<loadVars, hostVars, dropdown, analyticsSocialPosts, script,
                   geoVars, initRun, tableVars, currentHeatMapYear,
                   currentHeatMapMonth, currentHeatMapView, heatmapContainer,
                   repeatedCall, classifierCall, uiVars, shopifyTableBody,
                   eventCount>>

AppjsCalendarCalls ==
    \E weeks \in {weeklyData, weeklyData_bundle} : AppjsCalendarCall(weeks)

\* Revenues (cents) the classifier is called with: around both thresholds.
Revenues == {0, 100000, 250000, 250001, 500000, 500001, 600000}

\* getIntensityLevel(posts, campaigns, revenue) of both builds.
Classify(posts, campaigns, revenue) ==
    /\ classifierCall' =
           [posts |-> posts, campaigns |-> campaigns, revenue |-> revenue,
            called |-> TRUE,
            enhanced |-> getIntensityLevel(posts, campaigns, revenue),
            appjs |-> getIntensityLevel_appjs(posts, campaigns, revenue)]
    /\ UNCHANGED <<loadVars, hostVars, dropdown, analyticsSocialPosts, script,
                   geoVars, initRun, tableVars, heatVars, lastEvent, uiVars,
                   shopifyTableBody, eventCount>>

ClassifierCalls ==
    \E posts \in 0 .. MaxEvents, campaigns \in 0 .. MaxEvents,
       revenue \in Revenues : Classify(posts, campaigns, revenue)

\* Numbers of records analyticsData.timeline holds when data.js is
\* regenerated with fewer days: the first n records of the generated ones.
TimelineSizes == {0, 1, 2}

\* Values currentDateRange is given before populateRawDataTable is called.
DateRanges == {7, 30, 99999}

\* populateRawDataTable() called with analyticsData.timeline holding n records
\* and currentDateRange being range.
RawTableCall(n, range) ==
    /\ pc = "ready"
    /\ timeline' = TimelineAfterSliceReverse(
                       SubSeq(timeline, 1, Min(n, Len(timeline))), 0 - range)
    /\ currentDateRange' = range
    /\ rawDataTableBody' = populateRawDataTable(timeline', range)
    /\ lastEvent' = [handler |-> "populateRawDataTable",
                     effects |-> {"renderRaw"}]
    /\ UNCHANGED <<genVars, hostVars, dropdown, analyticsSocialPosts, script,
                   geoVars, initRun, startDateValue, endDateValue,
                   customRangeDisplay, heatVars, classifierCall, uiVars,
                   shopifyTableBody, eventCount>>

RawTableCalls ==
    \E n \in TimelineSizes, range \in DateRanges : RawTableCall(n, range)

\* populateCountryList() called once the page is ready.
PopulateCountryList ==
    /\ pc = "ready"
    /\ countryList' = populateCountryList(countries)
    /\ countries' = CountriesAfterSpreadSort(countries)
    /\ lastEvent' = [handler |-> "populateCountryList",
                     effects |-> {"renderCountries"}]
    /\ UNCHANGED <<loadVars, hostVars, dropdown, analyticsSocialPosts, script,
                   initRun, tableVars, heatVars, classifierCall, uiVars,
                   shopifyTableBody, eventCount>>

(***************************************************************************)
(* run_daily_update.sh, command by command.                                *)
(***************************************************************************)
\* Everything the script does not touch: the state of the page.
pageVars == <<loadVars, hostVars, initRun, geoVars, tableVars, heatVars,
              lastEvent, classifierCall, uiVars, shopifyTableBody,
              analyticsSocialPosts, dropdown, eventCount>>

\* python3 scripts/marketing_analytics_feed.py --days 700
Fetch ==
    /\ script.pc = "fetch"
    /\ \E ok \in BOOLEAN, writes \in BOOLEAN, differs \in BOOLEAN :
           script' = RunGenerator(script, "fetch", ok, writes, differs,
                                  "checkExcel")
    /\ UNCHANGED pageVars

CheckExcel ==
    /\ script.pc = "checkExcel"
    /\ script' = CheckFile(script, script.excel, "excelMissing", "export")
    /\ UNCHANGED pageVars

\* python3 scripts/export_to_json.py
Export ==
    /\ script.pc = "export"
    /\ \E ok \in BOOLEAN, writes \in BOOLEAN, differs \in BOOLEAN :
           script' = RunGenerator(script, "export", ok, writes, differs,
                                  "checkJson")
    /\ UNCHANGED pageVars

CheckJson ==
    /\ script.pc = "checkJson"
    /\ script' = CheckFile(script, script.json, "jsonMissing", "diff")
    /\ UNCHANGED pageVars

DetectChanges ==
    /\ script.pc = "diff"
    /\ script' = GitDiff(script)
    /\ UNCHANGED pageVars

Add ==
    /\ script.pc = "add"
    /\ \E ok \in BOOLEAN : script' = GitAdd(script, ok)
    /\ UNCHANGED pageVars

Commit ==
    /\ script.pc = "commit"
    /\ \E ok \in BOOLEAN : script' = GitCommit(script, ok)
    /\ UNCHANGED pageVars

Push ==
    /\ script.pc = "push"
    /\ \E ok \in BOOLEAN : script' = GitPush(script, ok)
    /\ UNCHANGED pageVars

\* The closing echo lines; the script ends with status 0.
Finish ==
    /\ script.pc = "finish"
    /\ script' = [script EXCEPT !.pc = "exited", !.status = 0]
    /\ UNCHANGED pageVars

(***************************************************************************)
(* Specifications.                                                         *)
(***************************************************************************)
FirstSeed == 977 % RandMod

\* Page load followed by date-range events.  These never read `engine`.
InitDate == Init /\ engine = 1 /\ eventCount = Unlimited
               /\ initRun = ShippedPage
               /\ dropdown = ClosedDropdown(TRUE)
               /\ script = CleanCheckout
               /\ countries = countriesData

Next == Load \/ DateEvents

Spec == InitDate /\ [][Next]_vars

\* Page load followed by heat-map selector events.  The heat map never reads
\* the timeline, so one seed is followed.
InitHeat == Init /\ rngState = FirstSeed /\ eventCount = Unlimited
               /\ initRun = ShippedPage
               /\ dropdown = ClosedDropdown(TRUE)
               /\ script = CleanCheckout
               /\ countries = countriesData

NextHeat == Load \/ HeatEvents

SpecHeat == InitHeat /\ [][NextHeat]_vars

\* Page load followed by calls of populateHeatMap with any arguments.
NextCalendar == Load \/ CalendarCalls \/ AppjsCalendarCalls

SpecCalendar == InitHeat /\ [][NextCalendar]_vars

\* Page load followed by calls of populateHeatMap with a month inside or
\* outside 0..11.
NextAnyMonth == Load \/ CalendarCallsAnyMonth

SpecAnyMonth == InitHeat /\ [][NextAnyMonth]_vars

\* Page load followed by tab and platform events and by calls of
\* populateRawDataTable over timelines of any size.
InitTables ==
    Init /\ rngState = FirstSeed /\ engine = 1 /\ eventCount = Unlimited
         /\ initRun = ShippedPage
         /\ dropdown = ClosedDropdown(TRUE)
         /\ script = CleanCheckout
         /\ countries = countriesData

NextTables == Load \/ UIEvents \/ RawTableCalls \/ ActivateTabCalls

SpecTables == InitTables /\ [][NextTables]_vars

\* The page loaded in either markup, then the pointer moving over the social
\* tab and its dropdown while hide callbacks are pending.
InitHover ==
    Init /\ rngState = FirstSeed /\ engine = 1 /\ eventCount = Unlimited
         /\ initRun = ShippedPage
         /\ script = CleanCheckout
         /\ countries = countriesData

NextHover == Load \/ HoverEvents

SpecHover == InitHover /\ [][NextHover]_vars

\* The scripts of website/js evaluated, then initializeApp's calls one after
\* the other, in a page that may lack one step's DOM target.
InitInit ==
    Init /\ rngState = FirstSeed /\ engine = 1 /\ eventCount = Unlimited
         /\ countries = countriesData
         /\ script = CleanCheckout
         /\ dropdown = ClosedDropdown(TRUE)

NextInit == GenStep \/ GenReturn \/ InitializeAppStep

SpecInit == InitInit /\ [][NextInit]_vars

\* The same with the event loop running every callback that is due.
SpecInitFair == SpecInit /\ WF_vars(NextInit)

\* Page load over any analyticsData.countries, then calls of
\* populateCountryList.
InitGeo ==
    Init /\ rngState = FirstSeed /\ engine = 1 /\ tza = 0
         /\ eventCount = Unlimited
         /\ initRun = ShippedPage
         /\ dropdown = ClosedDropdown(TRUE)
         /\ script = CleanCheckout

NextGeo == Load \/ PopulateCountryList

SpecGeo == InitGeo /\ [][NextGeo]_vars

\* One run of run_daily_update.sh in any repository state.
InitScript ==
    Init /\ rngState = FirstSeed /\ engine = 1 /\ tza = 0
         /\ eventCount = Unlimited
         /\ initRun = ShippedPage
         /\ dropdown = ClosedDropdown(TRUE)
         /\ countries = countriesData

NextScript ==
    \/ Fetch \/ CheckExcel \/ Export \/ CheckJson \/ DetectChanges
    \/ Add \/ Commit \/ Push \/ Finish

SpecScript == InitScript /\ [][NextScript]_vars

\* Page load followed by a session of at most MaxSteps events of any kind:
\* date-range, heat-map, tab and platform events.
InitApp ==
    Init /\ rngState = FirstSeed /\ engine = 1 /\ tza = 0 /\ eventCount = 0
         /\ initRun = ShippedPage
         /\ dropdown = ClosedDropdown(TRUE)
         /\ script = CleanCheckout
         /\ countries = countriesData

NextApp == Load \/ DateEvents \/ HeatEvents \/ UIEvents

SpecApp == InitApp /\ [][NextApp]_vars

\* Calls of getIntensityLevel.
InitClassify ==
    Init /\ rngState = FirstSeed /\ engine = 1 /\ tza = 0
         /\ eventCount = Unlimited
         /\ initRun = ShippedPage
         /\ dropdown = ClosedDropdown(TRUE)
         /\ script = CleanCheckout
         /\ countries = countriesData

SpecClassify == InitClassify /\ [][ClassifierCalls]_vars

(***************************************************************************)
(* The civil calendar the claims are stated against.                       *)
(***************************************************************************)
IsLeapYear(y) == (y % 4 = 0 /\ y % 100 # 0) \/ y % 400 = 0

\* Days of month m (0..11) of year y.
CivilDaysInMonth(y, m) ==
    IF m = 1 THEN (IF IsLeapYear(y) THEN 29 ELSE 28)
    ELSE IF m \in {3, 5, 8, 10} THEN 30
    ELSE 31

\* Weekday (Sunday = 0) of day d of month m (0..11) of year y.
CivilWeekday(y, m, d) ==
    LET t == <<0, 3, 2, 5, 0, 3, 5, 1, 4, 6, 2, 4>>
        yy == IF m < 2 THEN y - 1 ELSE y
    IN  (yy + (yy \div 4) - (yy \div 100) + (yy \div 400) + t[m + 1] + d) % 7

\* Serial number of a date string <<y, m, d>>, m in 1..12.
CivilSerial(s) ==
    LET yy == IF s[2] <= 2 THEN s[1] - 1 ELSE s[1]
        era == yy \div 400
        yoe == yy - era * 400
        mp == IF s[2] > 2 THEN s[2] - 3 ELSE s[2] + 9
        doy == ((153 * mp + 2) \div 5) + s[3] - 1
    IN  era * 146097 + yoe * 365 + (yoe \div 4) - (yoe \div 100) + doy

\* The calendar day after date string s.
CivilNextDay(s) ==
    IF s[3] < CivilDaysInMonth(s[1], s[2] - 1) THEN <<s[1], s[2], s[3] + 1>>
    ELSE IF s[2] < 12 THEN <<s[1], s[2] + 1, 1>>
    ELSE <<s[1] + 1, 1, 1>>

DateLE(a, b) == CivilSerial(a) <= CivilSerial(b)

IsDayCell(c) == c.kind = "day"

DayCells(grid) == SelectSeq(grid.cells, IsDayCell)

(***************************************************************************)
(* Claims.                                                                 *)
(***************************************************************************)
\* The tier policy of the specification, with revenue in cents.
PolicyTier(posts, campaigns, revenue) ==
    LET totalEvents == posts + campaigns
    IN  CASE totalEvents = 0 -> "none"
          [] totalEvents # 0 /\ (totalEvents >= 3 \/ revenue > 500000) -> "high"
          [] totalEvents # 0 /\ ~(totalEvents >= 3 \/ revenue > 500000)
                /\ (totalEvents >= 2 \/ revenue > 250000) -> "medium"
          [] OTHER -> "low"

\* C1: for every posts, campaigns and revenue >= 0, getIntensityLevel returns
\* 'none' when posts + campaigns = 0, else 'high' when the sum is >= 3 or
\* revenue > 5000, else 'medium' when the sum is >= 2 or revenue > 2500, else
\* 'low'; this is stated of the classifier of both builds.
C1_ClassifierFollowsPolicy ==
    classifierCall.called =>
        LET tier == PolicyTier(classifierCall.posts, classifierCall.campaigns,
                               classifierCall.revenue)
        IN  /\ classifierCall.enhanced = tier
            /\ classifierCall.appjs = tier

\* C2: for every day count N >= 0 held in currentDateRange, the raw-data
\* table shows exactly min(N, len(timeline)) rows, the records with the N
\* most recent dates, in descending date order.
C2_TableShowsLastN ==
    pc = "ready" =>
        LET len == Len(timeline)
            k == Min(currentDateRange, len)
        IN  /\ Len(rawDataTableBody) = k
            /\ \A j \in 1 .. Min(k, Len(rawDataTableBody)) :
                   rawDataTableBody[j].date = timeline[len + 1 - j].date

\* C2, for N >= 1 only: the part of the statement the filter does satisfy.
C2_TableShowsLastN_Positive ==
    (pc = "ready" /\ currentDateRange >= 1) =>
        LET len == Len(timeline)
            k == Min(currentDateRange, len)
        IN  /\ Len(rawDataTableBody) = k
            /\ \A j \in 1 .. Min(k, Len(rawDataTableBody)) :
                   rawDataTableBody[j].date = timeline[len + 1 - j].date

\* The grid of month m (0..11) has exactly the day cells 1..n of that month
\* of the selected year, in order, n being the month's civil day count.
GridHasDaysOf(year, grid) ==
    LET cells == DayCells(grid)
    IN  /\ Len(cells) = CivilDaysInMonth(year, grid.month)
        /\ \A j \in 1 .. Len(cells) :
               cells[j].day = j /\ cells[j].month = grid.month

GridHasDaysOfMonth(grid) == GridHasDaysOf(currentHeatMapYear, grid)

\* C3: for every year and month 0..11 the month grid holds exactly as many
\* day cells as the month has days in that year (29 for February 2024, 28
\* for February 2026), numbered 1..daysInMonth, none missing or repeated.
\* The one grid website/js/app.js builds, January 2026, is held to the same.
C3_MonthGridHasEveryDay ==
    /\ (pc = "ready" /\ currentHeatMapView = "month") =>
           /\ Len(heatmapContainer.grids) = 1
           /\ heatmapContainer.grids[1].month = currentHeatMapMonth
           /\ GridHasDaysOfMonth(heatmapContainer.grids[1])
           /\ \A j \in 1 .. Len(DayCells(heatmapContainer.grids[1])) :
                  DayCells(heatmapContainer.grids[1])[j].date =
                      <<currentHeatMapYear, currentHeatMapMonth + 1, j>>
    /\ (lastEvent.handler = "populateHeatMap_appjs"
            /\ ~appjsContainer.thrown) =>
           /\ appjsContainer.year = 2026
           /\ appjsContainer.month = 0
           /\ Len(appjsContainer.grids) = 1
           /\ GridHasDaysOf(2026, appjsContainer.grids[1])

C3_Witness ==
    /\ pc = "ready"
    /\ lastEvent.handler = "populateHeatMap"
    /\ currentHeatMapView = "month"
    /\ currentHeatMapYear = 2024
    /\ currentHeatMapMonth = 1
    /\ Len(DayCells(heatmapContainer.grids[1])) = 29

\* C4: generateTimelineData yields exactly 60 records on consecutive
\* calendar days, strictly increasing, from 2025-12-01 to 2026-01-29.
C4_TimelineIsSixtyConsecutiveDays ==
    pc # "generating" =>
        /\ Len(timeline) = 60
        /\ timeline[1].date = <<2025, 12, 1>>
        /\ timeline[Len(timeline)].date = <<2026, 1, 29>>
        /\ \A j \in 1 .. Len(timeline) - 1 :
               /\ timeline[j + 1].date = CivilNextDay(timeline[j].date)
               /\ CivilSerial(timeline[j].date) < CivilSerial(timeline[j + 1].date)

C4_Witness ==
    /\ pc = "loaded"
    /\ tza < 0
    /\ Len(timeline) = 60
    /\ timeline[32].date = <<2026, 1, 1>>

\* C5: after Apply with both dates present the table shows exactly the
\* timeline records dated within [start, end], none outside and none missing
\* (stated here for start <= end).
C5_CustomRangeShowsDatesInBounds ==
    (/\ lastEvent.handler = "applyCustomRange"
     /\ Len(startDateValue) > 0
     /\ Len(endDateValue) > 0
     /\ DateLE(startDateValue, endDateValue)) =>
        {rawDataTableBody[j].date : j \in 1 .. Len(rawDataTableBody)} =
            {timeline[j].date : j \in
                {i \in 1 .. Len(timeline) :
                    /\ DateLE(startDateValue, timeline[i].date)
                    /\ DateLE(timeline[i].date, endDateValue)}}

\* C6: Apply with start <= end sets currentDateRange to the number of
\* calendar days from start to end inclusive (10 for 2026-01-01 to
\* 2026-01-10).
C6_CustomRangeCountsInclusive ==
    (/\ lastEvent.handler = "applyCustomRange"
     /\ Len(startDateValue) > 0
     /\ Len(endDateValue) > 0
     /\ DateLE(startDateValue, endDateValue)) =>
        currentDateRange =
            CivilSerial(endDateValue) - CivilSerial(startDateValue) + 1

\* What Apply does compute: the day difference, end date excluded.
C6_CustomRangeCountsDifference ==
    (/\ lastEvent.handler = "applyCustomRange"
     /\ Len(startDateValue) > 0
     /\ Len(endDateValue) > 0) =>
        currentDateRange =
            Abs(CivilSerial(endDateValue) - CivilSerial(startDateValue))

\* C7: when Apply runs with the start or the end date empty, a validation
\* message is raised, currentDateRange keeps its value and the raw-data
\* table is not rendered again.
C7_IncompleteRangeOnlyAlerts ==
    [][(/\ lastEvent'.handler = "applyCustomRange"
        /\ (Len(startDateValue') = 0 \/ Len(endDateValue') = 0)) =>
            /\ lastEvent'.effects = {"alert"}
            /\ currentDateRange' = currentDateRange
            /\ rawDataTableBody' = rawDataTableBody]_vars

C7_Witness ==
    /\ lastEvent.handler = "applyCustomRange"
    /\ Len(startDateValue) > 0
    /\ Len(endDateValue) = 0
    /\ "alert" \in lastEvent.effects
    /\ currentDateRange = 7
    /\ Len(rawDataTableBody) = 7

\* Number of cells of the given kind in a grid.
CountKind(grid, kind) ==
    Cardinality({p \in 1 .. Len(grid.cells) : grid.cells[p].kind = kind})

\* The weekday headers come first, the empty cells next and as many as the
\* weekday (Sunday = 0) of the first of the month, the day cells last; so
\* the cell of day d is in column (weekdayOfFirst + d - 1) mod 7 of the
\* seven-column grid.
GridIsSundayFirst(grid) ==
    LET hdr == CountKind(grid, "header")
        wd == CivilWeekday(currentHeatMapYear, grid.month, 1)
    IN  /\ hdr \in {0, 7}
        /\ CountKind(grid, "day") > 0
        /\ \A p \in 1 .. Len(grid.cells) :
               /\ grid.cells[p].kind = "header" <=> p <= hdr
               /\ grid.cells[p].kind = "empty" <=> (hdr < p /\ p <= hdr + wd)
               /\ grid.cells[p].kind = "day" =>
                      /\ hdr % 7 = 0
                      /\ (p - 1) % 7 = (wd + grid.cells[p].day - 1) % 7

\* C8: in every grid of the month, quarter and year views the leading empty
\* cells number the weekday of the first of the month (Sunday = 0) and day d
\* lies in column (weekdayOfFirst + d - 1) mod 7.
C8_LeadingCellsAlignFirstDay ==
    pc = "ready" =>
        /\ Len(heatmapContainer.grids) > 0
        /\ \A k \in 1 .. Len(heatmapContainer.grids) :
               GridIsSundayFirst(heatmapContainer.grids[k])

\* The year view of 2026: January starts on a Thursday (4 empty cells),
\* February and March on a Sunday (none).
C8_Witness ==
    /\ pc = "ready"
    /\ lastEvent.handler = "populateHeatMap"
    /\ currentHeatMapView = "year"
    /\ currentHeatMapYear = 2026
    /\ tza = -480
    /\ CountKind(heatmapContainer.grids[1], "empty") = 4
    /\ CountKind(heatmapContainer.grids[2], "empty") = 0
    /\ heatmapContainer.grids[1].cells[5].day = 1

\* C9: the quarter view holds three grids, for months 3*floor(month/3) to
\* 3*floor(month/3)+2 in ascending order, the year view twelve grids for
\* months 0..11 in ascending order, and the day cells of each grid are the
\* days of its month, each once.
C9_QuarterAndYearCoverPeriod ==
    /\ (pc = "ready" /\ currentHeatMapView = "quarter") =>
           /\ Len(heatmapContainer.grids) = 3
           /\ \A k \in 1 .. 3 :
                  /\ heatmapContainer.grids[k].month =
                         3 * (currentHeatMapMonth \div 3) + k - 1
                  /\ GridHasDaysOfMonth(heatmapContainer.grids[k])
    /\ (pc = "ready" /\ currentHeatMapView = "year") =>
           /\ Len(heatmapContainer.grids) = 12
           /\ \A k \in 1 .. 12 :
                  /\ heatmapContainer.grids[k].month = k - 1
                  /\ GridHasDaysOfMonth(heatmapContainer.grids[k])

\* The quarter view asked for with August 2024: July, August, September.
C9_Witness ==
    /\ pc = "ready"
    /\ lastEvent.handler = "populateHeatMap"
    /\ currentHeatMapView = "quarter"
    /\ currentHeatMapYear = 2024
    /\ currentHeatMapMonth = 7
    /\ Len(heatmapContainer.grids) = 3
    /\ heatmapContainer.grids[1].month = 6
    /\ Len(DayCells(heatmapContainer.grids[3])) = 30

\* What a view says of a date: its tier and the activity it was given.
Shown(cell) == <<cell.day, cell.intensity, cell.posts, cell.campaigns,
                 cell.revenue>>

ShownDays(grid) == {Shown(grid.cells[p]) :
                      p \in {q \in 1 .. Len(grid.cells) :
                                grid.cells[q].kind = "day"}}

\* C10: every date has the same tier, from the same (posts, campaigns,
\* revenue), in the month view, in the quarter view containing it and in the
\* year view containing it.
C10_TierSameInAllViews ==
    pc = "ready" =>
        Bind(generateYearView(currentHeatMapYear, engine, tza), LAMBDA yv :
            \A k \in 1 .. Len(heatmapContainer.grids) :
                Bind(heatmapContainer.grids[k], LAMBDA g :
                    Bind(ShownDays(g), LAMBDA shown :
                        /\ shown = ShownDays(generateMonthView(
                               currentHeatMapYear, g.month, engine, tza)[1])
                        /\ shown = ShownDays(generateQuarterView(
                               currentHeatMapYear, g.month, engine,
                               tza)[(g.month % 3) + 1])
                        /\ shown = ShownDays(yv[g.month + 1]))))

\* A rendered quarter in which all four tiers occur.
C10_Witness ==
    /\ pc = "ready"
    /\ lastEvent.handler = "populateHeatMap"
    /\ currentHeatMapView = "quarter"
    /\ {c[2] : c \in ShownDays(heatmapContainer.grids[2])} =
           {"none", "low", "medium", "high"}

\* The activity a calendar cell of date ds would show were it taken from the
\* timeline: the record of that date, or the zero record when there is none.
TimelineActivity(ds) ==
    LET recs == {j \in 1 .. Len(timeline) : timeline[j].date = ds}
    IN  IF recs = {} THEN ZeroActivity
        ELSE LET rec == timeline[CHOOSE j \in recs : TRUE]
             IN  [posts |-> rec.posts, campaigns |-> rec.campaigns,
                  revenue |-> rec.revenue]

\* Every day cell of the grid shows the timeline's activity of its date and
\* the tier getIntensityLevel gives it.
GridFollowsTimeline(year, grid) ==
    \A p \in 1 .. Len(grid.cells) :
        grid.cells[p].kind = "day" =>
            LET c == grid.cells[p]
                a == TimelineActivity(<<year, grid.month + 1, c.day>>)
            IN  /\ <<c.posts, c.campaigns, c.revenue>> =
                       <<a.posts, a.campaigns, a.revenue>>
                /\ c.intensity =
                       getIntensityLevel(a.posts, a.campaigns, a.revenue)

\* C11: the calendar's activity lookup is the generated timeline: a date with
\* a timeline record gets the tier of that record's (posts, campaigns,
\* revenue), a date without one is treated as (0, 0, 0).
C11_CalendarSourcedFromTimeline ==
    pc = "ready" =>
        \A k \in 1 .. Len(heatmapContainer.grids) :
            GridFollowsTimeline(currentHeatMapYear, heatmapContainer.grids[k])

\* The handlers that call populateHeatMap after page load.
HeatHandlers == {"viewSelector", "monthSelector", "quarterSelector",
                 "yearSelector", "populateHeatMap"}

\* C12: a populateHeatMap call given the (year, month, view) of the call
\* before it leaves the same grid (same cells, same order, same tiers), the
\* same header, and the stored selection as the first call left it.
C12_RepeatedCallSameGrid ==
    [][(/\ pc = "ready"
        /\ lastEvent'.handler \in HeatHandlers
        /\ repeatedCall') =>
            /\ heatmapContainer' = heatmapContainer
            /\ <<currentHeatMapYear', currentHeatMapMonth',
                 currentHeatMapView'>> =
                   <<currentHeatMapYear, currentHeatMapMonth,
                     currentHeatMapView>>]_vars

\* The year selector set to 2025 in quarter view a second time.
C12_Witness ==
    /\ pc = "ready"
    /\ repeatedCall
    /\ lastEvent.handler = "yearSelector"
    /\ currentHeatMapYear = 2025
    /\ currentHeatMapView = "quarter"
    /\ Len(heatmapContainer.grids) = 3

\* C13: getIntensityLevel returns 'none' if and only if posts = 0 and
\* campaigns = 0, whatever the revenue; stated of the classifier of both
\* builds.
C13_NoneIffNoEvents ==
    classifierCall.called =>
        LET noEvent == classifierCall.posts = 0 /\ classifierCall.campaigns = 0
        IN  /\ (classifierCall.enhanced = "none") <=> noEvent
            /\ (classifierCall.appjs = "none") <=> noEvent

\* A day without events and with revenue above both thresholds.
C13_Witness ==
    /\ classifierCall.called
    /\ classifierCall.posts = 0
    /\ classifierCall.campaigns = 0
    /\ classifierCall.revenue = 600000
    /\ classifierCall.enhanced = "none"
    /\ classifierCall.appjs = "none"

\* C14: after any sequence of date-range changes, custom-range applies, tab
\* clicks, platform selections, heat-map navigation and table re-renders the
\* timeline holds the records it was generated with, in the same ascending
\* date order.
C14_TimelineNeverMutated ==
    pc = "ready" =>
        /\ timeline = data
        /\ Len(timeline) = TimelineDays
        /\ \A j \in 1 .. Len(timeline) - 1 :
               CivilSerial(timeline[j].date) < CivilSerial(timeline[j + 1].date)

\* A session of a date-range change (the table re-rendered with the 7 newest
\* records first) followed by a platform selection.
C14_Witness ==
    /\ pc = "ready"
    /\ eventCount = 2
    /\ lastEvent.handler = "dropdownItemClick"
    /\ currentDateRange = 7
    /\ Len(rawDataTableBody) = 7
    /\ rawDataTableBody[1].date = <<2026, 1, 29>>
    /\ timeline[1].date = <<2025, 12, 1>>

\* The timeline record of the date a table row shows.
RecordOfRow(row) ==
    timeline[CHOOSE j \in 1 .. Len(timeline) : timeline[j].date = row.date]

\* C15: every generated record has posts in {0,1}, campaigns in {0,1} and
\* hasEvent = (posts > 0 or campaigns > 0); a raw-data table row is
\* highlighted if and only if its record's hasEvent is true.
C15_HasEventAndHighlight ==
    /\ \A j \in 1 .. Len(data) :
           /\ data[j].posts \in {0, 1}
           /\ data[j].campaigns \in {0, 1}
           /\ data[j].hasEvent <=> (data[j].posts > 0 \/ data[j].campaigns > 0)
    /\ \A j \in 1 .. Len(rawDataTableBody) :
           /\ \E i \in 1 .. Len(timeline) :
                  timeline[i].date = rawDataTableBody[j].date
           /\ rawDataTableBody[j].highlight <=>
                  RecordOfRow(rawDataTableBody[j]).hasEvent

\* A rendered table with a row highlighted for a campaign alone, one
\* highlighted for a post, and one not highlighted.
C15_Witness ==
    /\ pc = "ready"
    /\ lastEvent.handler = "dateRangeChange"
    /\ \E j \in 1 .. Len(rawDataTableBody) :
           /\ rawDataTableBody[j].highlight
           /\ rawDataTableBody[j].posts = 0
           /\ rawDataTableBody[j].campaigns = 1
    /\ \E j \in 1 .. Len(rawDataTableBody) :
           rawDataTableBody[j].highlight /\ rawDataTableBody[j].posts = 1
    /\ \E j \in 1 .. Len(rawDataTableBody) : ~rawDataTableBody[j].highlight

\* C16: every record produced by generateTimelineData has
\* orders = floor(revenue / 35), revenue being the value stored in the record
\* (rounded to cents; the model holds it in cents, so 35 dollars are 3500).
C16_OrdersFromStoredRevenue ==
    /\ \A j \in 1 .. Len(data) : data[j].orders = data[j].revenue \div 3500
    /\ \A j \in 1 .. Len(timeline) :
           timeline[j].orders = timeline[j].revenue \div 3500

\* C17: the calendar builder of website/js/app.js does not fail on activity
\* data with a missing day or a week without a day list: the call raises no
\* error, the grid is rendered, and every day cell whose date has no record
\* in the data shows the zero-activity record and tier 'none'.  The data are
\* the weeklyData of data.js and of the bundle.
C17_MissingDaysDefaultToZero ==
    lastEvent.handler = "populateHeatMap_appjs" =>
        /\ ~appjsContainer.thrown
        /\ Len(appjsContainer.grids) = 1
        /\ \A j \in 1 .. Len(DayCells(appjsContainer.grids[1])) :
               LET c == DayCells(appjsContainer.grids[1])[j]
               IN  \/ \E k \in 1 .. Len(VisitedDays(weeklyData_bundle)) :
                          VisitedDays(weeklyData_bundle)[k].date = c.date
                   \/ /\ c.posts = 0
                      /\ c.campaigns = 0
                      /\ c.revenue = 0
                      /\ c.intensity = "none"

\* C18: after every call populateHeatMap(year, month, view), a month outside
\* 0..11 included, currentHeatMapMonth is in 0..11 and every day cell stands
\* for a real calendar date of the selected year: its month is in 0..11, its
\* day is a day of that month, and its data-date (month view) says the same.
\* (The model's populateHeatMap raises no error for any month, as the code
\* does not.)
C18_MonthNormalized ==
    lastEvent.handler = "populateHeatMap" =>
        /\ currentHeatMapMonth \in 0 .. 11
        /\ \A g \in 1 .. Len(heatmapContainer.grids) :
               \A j \in 1 .. Len(DayCells(heatmapContainer.grids[g])) :
                   LET c == DayCells(heatmapContainer.grids[g])[j]
                   IN  /\ c.month \in 0 .. 11
                       /\ c.day \in
                              1 .. CivilDaysInMonth(currentHeatMapYear, c.month)
                       /\ c.date # <<>> =>
                              c.date = <<currentHeatMapYear, c.month + 1, c.day>>

\* The three pieces of persistent UI state.
activeTab == <<activeBtns, activePanels>>

heatMapSelection ==
    <<currentHeatMapYear, currentHeatMapMonth, currentHeatMapView>>

\* C19: each piece of persistent UI state is changed only by its own
\* component's handler: a tab-button click leaves the platform filter and the
\* heat-map selection unchanged; a platform selection (social tab click or
\* dropdown item click) leaves the active tab and the heat-map selection
\* unchanged; a heat-map selector change leaves the active tab and the
\* platform filter unchanged; a date-range event leaves all three unchanged.
C19_StateOwnedByHandler ==
    [][/\ (\E tab \in TabButtons : TabClick(tab)) =>
              UNCHANGED <<currentPlatformFilter, heatMapSelection>>
       /\ (SocialTabClick \/ \E platform \in Platforms :
                                 DropdownItemClick(platform)) =>
              UNCHANGED <<activeTab, heatMapSelection>>
       /\ HeatEvents => UNCHANGED <<activeTab, currentPlatformFilter>>
       /\ DateEvents =>
              UNCHANGED <<activeTab, currentPlatformFilter, heatMapSelection>>
      ]_vars

\* C20: a heat-map selector change changes only its own component of
\* (year, month, view): the view selector keeps year and month, the month
\* selector keeps year and view, the year selector keeps month and view, the
\* quarter selector set to quarter q sets the month to 3 * q and keeps year
\* and view.  The grid shown afterwards is the one built from the new triple
\* alone, and platform filter, date range, timeline and active tab are
\* unchanged.
C20_NavigationChangesOneComponent ==
    [][(/\ pc = "ready"
        /\ lastEvent'.handler \in {"viewSelector", "monthSelector",
                                   "quarterSelector", "yearSelector"}) =>
            /\ lastEvent'.handler = "viewSelector" =>
                   UNCHANGED <<currentHeatMapYear, currentHeatMapMonth>>
            /\ lastEvent'.handler = "monthSelector" =>
                   UNCHANGED <<currentHeatMapYear, currentHeatMapView>>
            /\ lastEvent'.handler = "yearSelector" =>
                   UNCHANGED <<currentHeatMapMonth, currentHeatMapView>>
            /\ lastEvent'.handler = "quarterSelector" =>
                   /\ UNCHANGED <<currentHeatMapYear, currentHeatMapView>>
                   /\ \A q \in 0 .. 3 :
                          QuarterSelectorChange(q) =>
                              currentHeatMapMonth' = 3 * q
                   /\ currentHeatMapMonth' =
                          3 * heatmapContainer'.quarterSelector
            /\ heatmapContainer' =
                   populateHeatMap(currentHeatMapYear', currentHeatMapMonth',
                                   currentHeatMapView', engine, tza)
            /\ UNCHANGED <<currentPlatformFilter, currentDateRange, timeline,
                           activeTab>>]_vars

\* Back in the month view through the view selector, from another view, with
\* the month (May) that was selected before the month view was left.
C20_Witness ==
    /\ pc = "ready"
    /\ lastEvent.handler = "viewSelector"
    /\ ~repeatedCall
    /\ currentHeatMapView = "month"
    /\ currentHeatMapMonth = 4
    /\ heatmapContainer.monthSelector = 4

\* C21: a table whose filtered set is empty shows a 'no data' row: the social
\* table when no post matches the platform filter, the raw-data table when
\* the date-range filter selects no timeline record.
C21_EmptyFilterShowsNoDataRow ==
    /\ (/\ lastEvent.handler \in {"socialTabClick", "dropdownItemClick"}
        /\ currentPlatformFilter # "all"
        /\ FilterByPlatform(socialPosts, currentPlatformFilter) = <<>>) =>
           /\ Len(socialTableBody) = 1
           /\ socialTableBody[1].kind = "message"
    /\ (/\ lastEvent.handler = "populateRawDataTable"
        /\ Slice(timeline, 0 - currentDateRange) = <<>>) =>
           Len(rawDataTableBody) >= 1

\* C22: initializeApp never raises, and after the scripts are evaluated every
\* step of initializeApp eventually has run, through populateRawDataTable and
\* updateLastUpdateTime (the steps run in the listed order by construction).
C22_InitializeAppCompletes ==
    /\ [](~initRun.raised)
    /\ <>(initRun.step = Len(InitSteps))

\* The posts a filter selects: all of them for 'all', else those whose
\* platform is the filter up to letter case, in stored order.
PostsOfFilter(filter) ==
    SelectSeq(socialPosts,
              LAMBDA post : \/ filter = "all"
                            \/ toLowerCase(post.platform) = toLowerCase(filter))

\* The social table's post rows.
IsPostRow(row) == row.kind = "post"

\* C23: a render replaces the table: once the page is ready the raw-data
\* table holds exactly one row per record of timeline.slice(-currentDateRange),
\* newest first, and the social table's post rows are exactly the posts of
\* the current platform filter; a date-range render that leaves
\* currentDateRange as it was leaves the table as it was.
C23_RenderReplacesTable ==
    /\ [](pc = "ready" =>
             LET shown == Slice(timeline, 0 - currentDateRange)
                 postRows == SelectSeq(socialTableBody, IsPostRow)
                 posts == PostsOfFilter(currentPlatformFilter)
             IN  /\ Len(rawDataTableBody) = Len(shown)
                 /\ \A j \in 1 .. Len(shown) :
                        rawDataTableBody[j].date =
                            shown[Len(shown) + 1 - j].date
                 /\ Len(postRows) = Len(posts)
                 /\ \A j \in 1 .. Len(posts) :
                        /\ postRows[j].date = posts[j].date
                        /\ postRows[j].platform = posts[j].platform)
    /\ [][(/\ pc = "ready"
           /\ "renderRaw" \in lastEvent'.effects
           /\ currentDateRange' = currentDateRange) =>
              rawDataTableBody' = rawDataTableBody]_vars

\* A session of two events: seven days selected after the initial thirty,
\* and one platform after the initial 'all'.
C23_Witness ==
    /\ pc = "ready"
    /\ eventCount = 2
    /\ currentDateRange = 7
    /\ Len(rawDataTableBody) = 7
    /\ currentPlatformFilter = "instagram"
    /\ Len(socialTableBody) = 3

\* How many elements of the sequence equal c.
Occurrences(seq, c) == Cardinality({j \in 1 .. Len(seq) : seq[j] = c})

\* C24: populateCountryList shows min(10, number of countries) countries,
\* each of them a record of analyticsData.countries, in non-increasing order
\* of sessions, and no country left out has more sessions than one shown; the
\* countries array keeps its content and order.
C24_TopTenCountries ==
    /\ [](pc = "ready" =>
             /\ Len(countryList) = Min(10, Len(countries))
             /\ \A j \in 1 .. Len(countryList) - 1 :
                    countryList[j].sessions >= countryList[j + 1].sessions
             /\ \A j \in 1 .. Len(countryList) :
                    Occurrences(countryList, countryList[j]) <=
                        Occurrences(countries, countryList[j])
             /\ \A k \in 1 .. Len(countries) :
                    \/ Occurrences(countryList, countries[k]) =
                           Occurrences(countries, countries[k])
                    \/ \A j \in 1 .. Len(countryList) :
                           countries[k].sessions <= countryList[j].sessions)
    /\ [][countries' = countries]_vars

\* Twelve countries, not stored in order of sessions and with equal sessions
\* among them, of which ten are shown.
C24_Witness ==
    /\ pc = "ready"
    /\ lastEvent.handler = "populateCountryList"
    /\ Len(countries) = 12
    /\ Len(countryList) = 10
    /\ countries[1].sessions < countries[2].sessions
    /\ countries[1].sessions = countries[6].sessions
    /\ countryList[1].sessions > countryList[10].sessions

\* Position of the first occurrence of a command in the script's log, 0 when
\* it did not run.
FirstAt(log, cmd) ==
    IF \E j \in 1 .. Len(log) : log[j] = cmd
    THEN CHOOSE j \in 1 .. Len(log) :
             log[j] = cmd /\ \A i \in 1 .. j - 1 : log[i] # cmd
    ELSE 0

GitCommands == {"diff", "diffCached", "add", "commit", "push"}

RanGit(log) == \E j \in 1 .. Len(log) : log[j] \in GitCommands

\* C25: run_daily_update.sh runs fetch, then export, then deploy: a git
\* command has run only after both generators ran in that order and with both
\* generated files existing; a failed generator or a missing output file ends
\* the script with a non-zero status and no git command run; and when no
\* change is detected nothing is added, committed or pushed.
C25_FetchExportDeploy ==
    /\ RanGit(script.log) =>
           /\ FirstAt(script.log, "fetch") = 1
           /\ FirstAt(script.log, "export") = 2
           /\ script.excel /\ script.json
    /\ script.failed \in {"fetch", "excelMissing", "export", "jsonMissing"} =>
           /\ script.pc = "exited"
           /\ script.status # 0
           /\ ~RanGit(script.log)
    /\ script.pc \in {"export", "checkJson", "diff", "add", "commit", "push"} =>
           script.excel /\ FirstAt(script.log, "fetch") = 1
    /\ script.pc \in {"diff", "add", "commit", "push"} =>
           script.json /\ FirstAt(script.log, "export") = 2
    /\ script.detected = "none" =>
           \A j \in 1 .. Len(script.log) :
               script.log[j] \notin {"add", "commit", "committed", "push",
                                     "pushed"}
    /\ (\E j \in 1 .. Len(script.log) : script.log[j] = "pushed") =>
           FirstAt(script.log, "committed") # 0

\* A run that found changes, committed and pushed them and ended with 0.
C25_Witness ==
    /\ script.pc = "exited"
    /\ script.status = 0
    /\ script.detected = "changes"
    /\ script.log = <<"fetch", "export", "diff", "add", "commit", "committed",
                      "push", "pushed">>

\* C26: after any sequence of view, month, quarter and year selector changes
\* from the initial selection (2026, 0, 'month'), the stored year is one of
\* 2024..2026, the month is in 0..11, the view is one of the three, and in
\* quarter view the selected quarter option is floor(month / 3).
C26_SelectionStaysValid ==
    /\ currentHeatMapYear \in {2024, 2025, 2026}
    /\ currentHeatMapMonth \in 0 .. 11
    /\ currentHeatMapView \in {"month", "quarter", "year"}
    /\ (pc = "ready" /\ currentHeatMapView = "quarter") =>
           heatmapContainer.quarterSelector = currentHeatMapMonth \div 3

\* Quarter view reached with June selected, in 2024: the option shown is Q2.
C26_Witness ==
    /\ pc = "ready"
    /\ lastEvent.handler \in {"viewSelector", "yearSelector"}
    /\ currentHeatMapView = "quarter"
    /\ currentHeatMapMonth = 6
    /\ currentHeatMapYear = 2024
    /\ heatmapContainer.quarterSelector = 2

\* C27: a click on the dropdown item of platform p leaves
\* currentPlatformFilter = p (not 'all'), the social tab active and the
\* social table rendered for p; a click on the social tab leaves the filter
\* 'all'.
C27_DropdownSelectsPlatform ==
    /\ [][\A p \in Platforms :
              DropdownItemClick(p) =>
                  /\ currentPlatformFilter' = p
                  /\ activeTab' = <<{"social"}, {"social"}>>
                  /\ LET postRows == SelectSeq(socialTableBody', IsPostRow)
                     IN  /\ Len(postRows) = Len(PostsOfFilter(p))
                         /\ \A j \in 1 .. Len(postRows) :
                                toLowerCase(postRows[j].platform) =
                                    toLowerCase(p)]_vars
    /\ [](lastEvent.handler = "dropdownItemClick" =>
              currentPlatformFilter \in Platforms)
    /\ [](lastEvent.handler = "socialTabClick" =>
              /\ currentPlatformFilter = "all"
              /\ Len(socialTableBody) = Len(socialPosts))

\* The TikTok item clicked while another tab was active in a session that had
\* a different filter before: one TikTok post is shown.
C27_Witness ==
    /\ lastEvent.handler = "dropdownItemClick"
    /\ currentPlatformFilter = "TikTok"
    /\ activeBtns = {"social"}
    /\ Len(socialTableBody) = 1
    /\ socialTableBody[1].kind = "post"
    /\ socialTableBody[1].platform = "TikTok"

\* C28: whatever currentPlatformFilter is, the social table shows exactly the
\* posts of analyticsData.socialPosts whose platform equals the filter up to
\* letter case, in stored order, and every post when the filter is 'all';
\* analyticsData.socialPosts keeps its content and order.
C28_TableShowsPlatformPosts ==
    /\ analyticsSocialPosts = socialPosts
    /\ pc = "ready" =>
           LET postRows == SelectSeq(socialTableBody, IsPostRow)
               match(post) ==
                   \/ currentPlatformFilter = "all"
                   \/ toLowerCase(post.platform) =
                          toLowerCase(currentPlatformFilter)
               matching == {k \in 1 .. Len(analyticsSocialPosts) :
                                match(analyticsSocialPosts[k])}
           IN  /\ Len(postRows) = Cardinality(matching)
               /\ \A j \in 1 .. Len(postRows) :
                      \E k \in matching :
                          /\ Cardinality({i \in matching : i <= k}) = j
                          /\ postRows[j].date = analyticsSocialPosts[k].date
                          /\ postRows[j].platform =
                                 analyticsSocialPosts[k].platform
               /\ currentPlatformFilter = "all" =>
                      Len(socialTableBody) = Len(analyticsSocialPosts)

\* The filter 'instagram' shows the three posts stored as 'Instagram', in
\* stored order.
C28_Witness ==
    /\ pc = "ready"
    /\ lastEvent.handler = "dropdownItemClick"
    /\ currentPlatformFilter = "instagram"
    /\ Len(socialTableBody) = 3
    /\ \A j \in 1 .. 3 : socialTableBody[j].platform = "Instagram"
    /\ socialTableBody[1].date = analyticsSocialPosts[1].date
    /\ socialTableBody[2].date = analyticsSocialPosts[3].date
    /\ socialTableBody[3].date = analyticsSocialPosts[5].date

\* C29: after any sequence of tab-button clicks and activateTab calls at most
\* one tab button and at most one tab content panel carry class active, and
\* when both exist the active panel's id is the active button's data-tab.
C29_OneActiveTab ==
    /\ Cardinality(activeBtns) <= 1
    /\ Cardinality(activePanels) <= 1
    /\ (activeBtns # {} /\ activePanels # {}) => activePanels = activeBtns

\* activateTab('social') ran while another tab was active, and left the
\* social button and the social panel as the only active ones.
C29_Witness ==
    /\ pc = "ready"
    /\ lastEvent.handler = "activateTab"
    /\ activeBtns = {"social"}
    /\ activePanels = {"social"}
    /\ currentPlatformFilter = "all"
    /\ socialTableBody # <<>>

\* C30: under every interleaving of the pointer's moves with the deferred
\* hide callbacks, the dropdown is shown whenever the pointer is over the
\* social tab or over the dropdown, it is hidden only once the pointer has
\* left both, and a hide callback that runs while the pointer is over the
\* social tab does not hide the dropdown.
C30_DropdownFollowsPointer ==
    /\ [](pc = "ready" /\ dropdown.pointer \in {"tab", "dropdown"} =>
              dropdown.shown)
    /\ [][/\ (dropdown.shown /\ ~dropdown'.shown) =>
                  dropdown'.pointer = "outside"
          /\ (HideTimerFires /\ dropdown.pointer = "tab") =>
                  dropdown'.shown = dropdown.shown]_vars

=============================================================================
